---- MODULE Spec2Model ----
(***************************************************************************)
(* The container file monitor of share/fsmon/monitor.go (type FileWatch):  *)
(* the group registry, the event aggregator with its 4 s flush, the        *)
(* classifier and reporter, and the learning engine with its 10 s tick.    *)
(*                                                                         *)
(* Strings are sequences of tokens; "/" is a token of its own, so          *)
(* "/bin/ls" is <<"/", "bin", "/", "ls">> and string concatenation is \o.  *)
(* An event mask is the set of the names of its bits.                      *)
(* The two drivers (fanotify.go, inotify.go) and global.SYS are modelled   *)
(* from their description; every other definition follows monitor.go.      *)
(***************************************************************************)
EXTENDS Integers, Sequences, FiniteSets, TLC

\* ------------------------------------------------------------------ bounds
ContainerPid == 2    \* the root pid of the container; pid 1 is the host
MaxProcs == 1        \* processes the fanotify driver may name in the main scenario
MaxDelivered == 3    \* driver callbacks logged per aggregation window
MaxTicks == 1        \* grace periods that pass in the flush scenario
MaxCallers == 3      \* goroutines calling StartWatch in the walker scenario

\* ------------------------------------------------------- program constants
walkerMaxCount == 2
graceSeconds == 60


\* ----------------------------------------------------------------- strings
None == [none |-> TRUE]

HasPrefix(s, pre) ==
    /\ Len(pre) <= Len(s)
    /\ SubSeq(s, 1, Len(pre)) = pre

HasSuffix(s, suf) ==
    /\ Len(suf) <= Len(s)
    /\ SubSeq(s, Len(s) - Len(suf) + 1, Len(s)) = suf

\* filepath.Dir and filepath.Base of a clean absolute path
Dir(p) == IF Len(p) <= 2 THEN <<"/">> ELSE SubSeq(p, 1, Len(p) - 2)
Base(p) == IF Len(p) = 0 THEN "." ELSE p[Len(p)]

\* filepath.Join(a, b) of two clean absolute paths
Join(a, b) == IF a = <<"/">> THEN b ELSE a \o b

\* strings.Replace(s, "\\.", ".", -1): an escaped dot lives inside one token
UnescapeTok(t) ==
    CASE t = "resolv\\.conf" -> "resolv.conf"
      [] t = "\\.ssh" -> ".ssh"
      [] OTHER -> t
Unescape(s) == [i \in 1..Len(s) |-> UnescapeTok(s[i])]

\* regexp: the token ".*" matches any run of tokens, another token matches itself
RECURSIVE RegexMatch(_, _)
RegexMatch(pat, s) ==
    IF pat = <<>> THEN s = <<>>
    ELSE IF Head(pat) = ".*"
         THEN \E k \in 0..Len(s) : RegexMatch(Tail(pat), SubSeq(s, k + 1, Len(s)))
         ELSE /\ s # <<>>
              /\ Head(s) = Head(pat)
              /\ RegexMatch(Tail(pat), Tail(s))

\* global.SYS.ContainerFilePath / ParseContainerFilePath: /proc/<pid>/root<path>
PidTok(pid) == <<"1", "2", "3", "4">>[pid]
ContainerFilePath(pid, path) == <<"/", "proc", "/", PidTok(pid), "/", "root">> \o path
ParseContainerFilePath(full) ==
    IF /\ Len(full) > 6
       /\ SubSeq(full, 1, 3) = <<"/", "proc", "/">>
       /\ SubSeq(full, 5, 6) = <<"/", "root">>
       /\ \E pid \in 1..4 : PidTok(pid) = full[4]
    THEN [pid |-> CHOOSE pid \in 1..4 : PidTok(pid) = full[4],
          path |-> SubSeq(full, 7, Len(full))]
    ELSE [pid |-> 0, path |-> <<>>]

\* ------------------------------------------------------------- event masks
IN_MOVE == {"IN_MOVED_FROM", "IN_MOVED_TO"}
inodeMovedMask == IN_MOVE \cup {"IN_MOVE_SELF", "IN_MOVED_TO"}
Has(mask, bits) == (mask \cap bits) # {}

\* ---------------------------------------------------------------- messages
fileEventMsg(event) ==
    CASE event = "fileEventAttr" -> "File attribute is changed."
      [] event = "fileEventDirAttr" -> "Directory attribute is changed."
      [] event = "fileEventModified" -> "File was modified."
      [] event = "fileEventReplaced" -> "File was replaced."
      [] event = "fileEventCreate" -> "File created in watched directory."
      [] event = "fileEventRemoved" -> "File deleted from watched directory."
      [] event = "fileEventSymCreate" -> "File symlink was created."
      [] event = "fileEventSymModified" -> "File symlink was modified."
      [] event = "fileEventDirSymCreate" -> "Directory symlink was created."
      [] event = "fileEventDirSymModified" -> "Directory symlink was modified."
      [] event = "fileEventDirCreate" -> "Directory was created."
      [] event = "fileEventDirRemoved" -> "Directory was deleted."
      [] event = "fileEventAccessed" -> "File was accessed."
      [] event = "fileEventDenied" -> "File access was denied."
      [] event = "fileEventMovedFrom" -> "File was moved from."
      [] event = "fileEventMovedTo" -> "File was moved to."
      [] event = "fileEventDirMovedFrom" -> "Directory was moved from."
      [] event = "fileEventDirMovedTo" -> "Directory was moved to."
      [] OTHER -> ""

PolicyModeLearn == "Discover"
PolicyModeEvaluate == "Monitor"
PolicyModeEnforce == "Protect"
PolicyActionViolate == "violate"
PolicyActionDeny == "deny"

\* ------------------------------------------------------- filters and rules
filterIndexKey(filter) == filter.Path \o <<"/">> \o filter.Regex

filterPathMatch(path, flt) ==
    IF flt.Regex = <<>>
    THEN flt.Path = path
    ELSE RegexMatch(Dir(path) \o <<"/">> \o flt.Regex, path)

isRunTimeAddedFile(path) ==
    \/ HasSuffix(path, <<"/", "root", "/", "etc", "/", "hosts">>)
    \/ HasSuffix(path, <<"/", "root", "/", "etc", "/", "hostname">>)
    \/ HasSuffix(path, <<"/", "root", "/", "etc", "/", "resolv.conf">>)

\* the process paths of pInfo that addLearnedRules may insert
LearnablePaths(pInfo) ==
    {pInfo[i].Path : i \in {j \in 1..Len(pInfo) : pInfo[j] # None /\ pInfo[j].Path # ""}}

\* addLearnedRules_DropFreshSet: the learner that never stores a set it created
addLearnedRules_DropFreshSet(grp, flt, pInfo) ==
    LET index == filterIndexKey(flt)
    IN  IF index \in DOMAIN grp.applyRules /\ index \in DOMAIN grp.learnRules
        THEN [grp EXCEPT !.learnRules[index] =
                 @ \cup (LearnablePaths(pInfo) \ grp.applyRules[index])]
        ELSE grp

\* addLearnedRules, lines 402-424
addLearnedRules(grp, flt, pInfo) ==
    LET index == filterIndexKey(flt)
    IN  IF index \in DOMAIN grp.applyRules
        THEN LET applyRules == grp.applyRules[index]
                 old == IF index \in DOMAIN grp.learnRules
                        THEN grp.learnRules[index] ELSE {}
                 new == old \cup (LearnablePaths(pInfo) \ applyRules)
             IN  IF new # {}
                 THEN [grp EXCEPT !.learnRules = (index :> new) @@ grp.learnRules]
                 ELSE grp
        ELSE grp

\* learnFromEvents_AllFilters: the loops that learn under every matching filter
RECURSIVE learnFromEvents_AllFilters(_, _, _, _)
learnFromEvents_AllFilters(grp, filters, path, pInfo) ==
    IF filters = <<>> THEN grp
    ELSE LET flt == Head(filters)
             g1 == IF filterPathMatch(path, flt)
                   THEN addLearnedRules(grp, flt, pInfo)
                   ELSE grp
         IN  learnFromEvents_AllFilters(g1, Tail(filters), path, pInfo)

\* the two loops of learnFromEvents over profile.Filters and profile.FiltersCRD
RECURSIVE LearnOver(_, _, _, _)
LearnOver(grp, filters, path, pInfo) ==
    IF filters = <<>> THEN grp
    ELSE LET flt == Head(filters)
             g1 == IF flt.CustomerAdd /\ filterPathMatch(path, flt)
                   THEN addLearnedRules(grp, flt, pInfo)
                   ELSE grp
         IN  LearnOver(g1, Tail(filters), path, pInfo)

\* learnFromEvents_AnyMode: the locked section without the test of the mode
learnFromEvents_AnyMode(grp, path, pInfo) ==
    IF Len(pInfo) > 0
    THEN LearnOver(LearnOver(grp, grp.profile.Filters, path, pInfo),
                   grp.profile.FiltersCRD, path, pInfo)
    ELSE grp

\* learnFromEvents, lines 435-448: the group after the locked section
LearnedGroup(grp, path, pInfo) ==
    IF grp.mode = PolicyModeLearn /\ Len(pInfo) > 0
    THEN LearnOver(LearnOver(grp, grp.profile.Filters, path, pInfo),
                   grp.profile.FiltersCRD, path, pInfo)
    ELSE grp

\* --------------------------------------------------------------- reporting
\* sendMsg_DenyKeepsMsg: the denied process changes the action of the report
\* and leaves the message of the event
sendMsg_DenyKeepsMsg(cid, path, event, pi) ==
    [ID |-> cid,
     Path |-> path,
     GroupIsDeny |-> (event = "fileEventDenied"),
     Proc |-> pi,
     Msg |-> fileEventMsg(event),
     Action |-> IF pi # None /\ pi.Deny THEN PolicyActionDeny ELSE PolicyActionViolate]

\* sendMsg, lines 283-290 and 299-321: the report for process pi, or for none
MonitorMessage(cid, path, event, pi) ==
    [ID |-> cid,
     Path |-> path,
     GroupIsDeny |-> (event = "fileEventDenied"),  \* third argument of estRuleSrc
     Proc |-> pi,
     Msg |-> IF pi # None /\ pi.Deny THEN fileEventMsg("fileEventDenied")
             ELSE fileEventMsg(event),
     Action |-> IF pi # None /\ pi.Deny THEN PolicyActionDeny ELSE PolicyActionViolate]

\* sendMsg_EveryProcess: a report for every process of the list, equal to its
\* predecessor or not
sendMsg_EveryProcess(cid, path, event, pInfo, i) ==
    [j \in 1..Len(pInfo) |-> MonitorMessage(cid, path, event, pInfo[j])]

\* sendMsg, lines 297-327: the loop over the process list, from index i
RECURSIVE SendFrom(_, _, _, _, _)
SendFrom(cid, path, event, pInfo, i) ==
    IF i > Len(pInfo) THEN <<>>
    ELSE (IF i = 1 \/ pInfo[i - 1] # pInfo[i]
          THEN <<MonitorMessage(cid, path, event, pInfo[i])>>
          ELSE <<>>) \o SendFrom(cid, path, event, pInfo, i + 1)

\* sendMsg_SkipNoProcess: the event without a process is dropped unreported
sendMsg_SkipNoProcess(cid, path, event, pInfo, mode) ==
    IF fileEventMsg(event) = "" \/ pInfo = <<>> THEN <<>>
    ELSE SendFrom(cid, path, event, pInfo, 1)

\* sendMsg: the reports handed to the report callback, in order
sendMsg(cid, path, event, pInfo, mode) ==
    IF fileEventMsg(event) = "" THEN <<>>
    ELSE IF pInfo = <<>> THEN <<MonitorMessage(cid, path, event, None)>>
    ELSE SendFrom(cid, path, event, pInfo, 1)

\* learnFromEvents, lines 461-466: a symlink target replaces the reported path
RECURSIVE IndexOf(_, _, _)
IndexOf(s, sub, i) ==
    IF i + Len(sub) - 1 > Len(s) THEN 0
    ELSE IF SubSeq(s, i, i + Len(sub) - 1) = sub THEN i
    ELSE IndexOf(s, sub, i + 1)

ReportPath(path, link) ==
    IF link = <<>> THEN path
    ELSE LET index == IndexOf(link, <<"/", "root", "/">>, 1)
         IN  IF index > 1 THEN SubSeq(link, index + 2, Len(link)) ELSE link

\* learnFromEvents_NoGraceEnd: the runtime-added files are skipped whatever the age
\* of the group
learnFromEvents_NoGraceEnd(path, event, mode, age) ==
    /\ ~isRunTimeAddedFile(Join(<<"/", "root">>, path))
    /\ (event # "fileEventAccessed" \/ mode \in {PolicyModeEnforce, PolicyModeEvaluate})

\* learnFromEvents_GraceInclusive: the grace test with <= in place of <
learnFromEvents_GraceInclusive(path, event, mode, age) ==
    /\ ~(/\ isRunTimeAddedFile(Join(<<"/", "root">>, path))
         /\ (event = "fileEventAccessed" \/ age <= graceSeconds))
    /\ (event # "fileEventAccessed" \/ mode \in {PolicyModeEnforce, PolicyModeEvaluate})

\* learnFromEvents_NoModeGate: the report decision without the mode test
learnFromEvents_NoModeGate(path, event, mode, age) ==
    ~(/\ isRunTimeAddedFile(Join(<<"/", "root">>, path))
      /\ (event = "fileEventAccessed" \/ age < graceSeconds))

\* learnFromEvents, lines 452-460: whether the event reaches sendMsg
ShouldReport(path, event, mode, age) ==
    /\ ~(/\ isRunTimeAddedFile(Join(<<"/", "root">>, path))
         /\ (event = "fileEventAccessed" \/ age < graceSeconds))
    /\ (event # "fileEventAccessed" \/ mode \in {PolicyModeEnforce, PolicyModeEvaluate})

\* ------------------------------------------------------------ classifier
HashZero(h) == h = "0"
\* GetFileHash returned an error
HashErr == ""

\* the calls a handler makes on the two drivers, in order
OpAddFile(bIncInotify, fi, fid) ==
    [op |-> "addFile", path |-> fi.Path, inotify |-> bIncInotify, fid |-> fid,
     wildcard |-> HasSuffix(fi.Filter.path, <<"/", ".*">>), files |-> {}]
OpAddDir(bIncInotify, fi, fid, files) ==
    [op |-> "addDir", path |-> fi.Path, inotify |-> bIncInotify, fid |-> fid,
     wildcard |-> FALSE, files |-> files]
OpRemoveFile(fullpath) ==
    [op |-> "removeFile", path |-> fullpath, inotify |-> TRUE, fid |-> <<>>,
     wildcard |-> FALSE, files |-> {}]

Handled(event, fi, ops) == [event |-> event, fi |-> fi, ops |-> ops]

\* handleFileEvents_ChangeFirst: the handler that reports a changed hash before it
\* looks at IN_ATTRIB
handleFileEvents_ChangeFirst(fmod, fi, obs, fullPath) ==
    IF obs.info # None
    THEN IF Has(fmod.mask, inodeMovedMask)
         THEN Handled("fileEventMovedTo", fi, <<OpAddFile(TRUE, fi, fmod.finfo)>>)
         ELSE IF /\ Has(fmod.mask, {"IN_ATTRIB"})
                 /\ ~(/\ Has(fmod.mask, {"IN_CLOSE_WRITE", "IN_MODIFY"})
                      /\ obs.hash # HashErr /\ obs.hash # fi.Hash)
         THEN Handled("fileEventAttr", [fi EXCEPT !.IsDir = obs.info.IsDir], <<>>)
         ELSE IF Has(fmod.mask, {"IN_ACCESS", "IN_CLOSE_WRITE", "IN_MODIFY"})
         THEN IF obs.hash # HashErr /\ obs.hash # fi.Hash /\ ~HashZero(fi.Hash)
              THEN Handled("fileEventModified", [fi EXCEPT !.Hash = obs.hash], <<>>)
              ELSE IF obs.hash # HashErr /\ obs.hash = fi.Hash
              THEN Handled("fileEventAccessed", fi, <<>>)
              ELSE Handled(IF Has(fmod.mask, {"IN_CLOSE_WRITE", "IN_MODIFY"})
                           THEN "fileEventModified" ELSE "fileEventAccessed",
                           IF obs.hash # HashErr THEN [fi EXCEPT !.Hash = obs.hash] ELSE fi,
                           <<>>)
         ELSE Handled("", fi, <<>>)
    ELSE IF Has(fmod.mask, inodeMovedMask)
         THEN Handled("fileEventMovedFrom", fi, <<>>)
         ELSE Handled("fileEventRemoved", fi, <<OpRemoveFile(fullPath)>>)

\* handleFileEvents; fi is *fmod.finfo, obs what Lstat and GetFileHash return
handleFileEvents(fmod, fi, obs, fullPath) ==
    IF obs.info # None
    THEN IF Has(fmod.mask, inodeMovedMask)
         THEN Handled("fileEventMovedTo", fi, <<OpAddFile(TRUE, fi, fmod.finfo)>>)
         ELSE IF Has(fmod.mask, {"IN_ATTRIB"})
         THEN Handled("fileEventAttr", [fi EXCEPT !.IsDir = obs.info.IsDir], <<>>)
         ELSE IF Has(fmod.mask, {"IN_ACCESS", "IN_CLOSE_WRITE", "IN_MODIFY"})
         THEN IF obs.hash # HashErr /\ obs.hash # fi.Hash /\ ~HashZero(fi.Hash)
              THEN Handled("fileEventModified", [fi EXCEPT !.Hash = obs.hash], <<>>)
              ELSE IF obs.hash # HashErr /\ obs.hash = fi.Hash
              THEN Handled("fileEventAccessed", fi, <<>>)
              ELSE Handled(IF Has(fmod.mask, {"IN_CLOSE_WRITE", "IN_MODIFY"})
                           THEN "fileEventModified" ELSE "fileEventAccessed",
                           IF obs.hash # HashErr THEN [fi EXCEPT !.Hash = obs.hash] ELSE fi,
                           <<>>)
         ELSE Handled("", fi, <<>>)
    ELSE IF Has(fmod.mask, inodeMovedMask)
         THEN Handled("fileEventMovedFrom", fi, <<>>)
         ELSE Handled("fileEventRemoved", fi, <<OpRemoveFile(fullPath)>>)

\* handleDirEvents, lines 853-861: the new entry is added to the monitor
AddNewToMonitor(event, fi, fid, obs, path) ==
    Handled(event, fi,
            <<OpAddDir(TRUE, fi, fid, IF obs.newFiles THEN {Base(path)} ELSE {})>>)

\* handleDirEvents_ReleaseRemoved: the handler that releases the watch of a removed
\* path only, the directory itself included
handleDirEvents_ReleaseRemoved(fmod, fi, fullPath) ==
    IF fullPath = fi.Path
    THEN Handled("fileEventDirRemoved", fi, <<OpRemoveFile(fullPath)>>)
    ELSE IF Has(fmod.mask, inodeMovedMask)
    THEN Handled(IF Has(fmod.mask, {"IN_ISDIR"}) THEN "fileEventDirMovedFrom"
                 ELSE "fileEventMovedFrom", fi, <<>>)
    ELSE Handled("fileEventRemoved", fi, <<OpRemoveFile(fullPath)>>)

\* handleDirEvents, lines 886-903: the path is gone
handleDirEvents_Gone(fmod, fi, fullPath) ==
    IF fullPath = fi.Path
    THEN Handled("fileEventDirRemoved", fi, <<>>)
    ELSE Handled(IF Has(fmod.mask, inodeMovedMask)
                 THEN (IF Has(fmod.mask, {"IN_ISDIR"}) THEN "fileEventDirMovedFrom"
                       ELSE "fileEventMovedFrom")
                 ELSE "fileEventRemoved",
                 fi, <<OpRemoveFile(fullPath)>>)

\* handleDirEvents_AttrLast: the handler that compares the hash before it looks
\* at IN_ATTRIB
handleDirEvents_AttrLast(fmod, fi, obs, fullPath, path) ==
    IF obs.info # None
    THEN LET bIsDir == obs.info.IsDir
         IN  IF Has(fmod.mask, {"IN_MOVED_TO", "IN_CREATE"})
             THEN IF Has(fmod.mask, {"IN_MOVED_TO"})
                  THEN AddNewToMonitor(IF bIsDir THEN "fileEventDirMovedTo"
                                       ELSE "fileEventMovedTo", fi, fmod.finfo, obs, path)
                  ELSE IF bIsDir
                  THEN LET fi1 == [fi EXCEPT !.Path = fullPath, !.IsDir = TRUE]
                       IN  IF ~fi.Filter.recursive
                           THEN Handled("fileEventDirCreate", fi1, <<>>)
                           ELSE AddNewToMonitor("fileEventDirCreate", fi1, fmod.finfo,
                                                obs, path)
                  ELSE IF obs.info.IsSymlink
                  THEN AddNewToMonitor(IF obs.linkIsDir THEN "fileEventDirSymCreate"
                                       ELSE "fileEventSymCreate", fi, fmod.finfo, obs, path)
                  ELSE Handled("fileEventCreate", fi, <<OpAddFile(FALSE, fi, fmod.finfo)>>)
             ELSE IF Has(fmod.mask, {"IN_ACCESS", "IN_CLOSE_WRITE", "IN_MODIFY"})
             THEN IF bIsDir
                  THEN Handled("fileEventAccessed", fi, <<>>)
                  ELSE IF obs.hash # HashErr
                  THEN IF obs.hash # fi.Hash
                       THEN Handled(IF ~HashZero(fi.Hash) THEN "fileEventModified"
                                    ELSE "fileEventAccessed",
                                    [fi EXCEPT !.Hash = obs.hash], <<>>)
                       ELSE Handled("fileEventAccessed", fi, <<>>)
                  ELSE Handled(IF Has(fmod.mask, {"IN_MODIFY"}) THEN "fileEventModified"
                               ELSE "fileEventAccessed", fi, <<>>)
             ELSE IF Has(fmod.mask, {"IN_ATTRIB"})
             THEN Handled(IF bIsDir THEN "fileEventDirAttr" ELSE "fileEventAttr", fi, <<>>)
             ELSE Handled("", fi, <<>>)
    ELSE handleDirEvents_Gone(fmod, fi, fullPath)

\* handleDirEvents; path is the container path of fullPath
handleDirEvents(fmod, fi, obs, fullPath, path) ==
    IF obs.info # None
    THEN LET bIsDir == obs.info.IsDir
         IN  IF Has(fmod.mask, {"IN_MOVED_TO", "IN_CREATE"})
             THEN IF Has(fmod.mask, {"IN_MOVED_TO"})
                  THEN AddNewToMonitor(IF bIsDir THEN "fileEventDirMovedTo"
                                       ELSE "fileEventMovedTo", fi, fmod.finfo, obs, path)
                  ELSE IF bIsDir
                  THEN LET fi1 == [fi EXCEPT !.Path = fullPath, !.IsDir = TRUE]
                       IN  IF ~fi.Filter.recursive
                           THEN Handled("fileEventDirCreate", fi1, <<>>)
                           ELSE AddNewToMonitor("fileEventDirCreate", fi1, fmod.finfo,
                                                obs, path)
                  ELSE IF obs.info.IsSymlink
                  THEN AddNewToMonitor(IF obs.linkIsDir THEN "fileEventDirSymCreate"
                                       ELSE "fileEventSymCreate", fi, fmod.finfo, obs, path)
                  ELSE Handled("fileEventCreate", fi, <<OpAddFile(FALSE, fi, fmod.finfo)>>)
             ELSE IF Has(fmod.mask, {"IN_ATTRIB"})
             THEN Handled(IF bIsDir THEN "fileEventDirAttr" ELSE "fileEventAttr", fi, <<>>)
             ELSE IF Has(fmod.mask, {"IN_ACCESS", "IN_CLOSE_WRITE", "IN_MODIFY"})
             THEN IF bIsDir
                  THEN Handled("fileEventAccessed", fi, <<>>)
                  ELSE IF obs.hash # HashErr
                  THEN IF obs.hash # fi.Hash
                       THEN Handled(IF ~HashZero(fi.Hash) THEN "fileEventModified"
                                    ELSE "fileEventAccessed",
                                    [fi EXCEPT !.Hash = obs.hash], <<>>)
                       ELSE Handled("fileEventAccessed", fi, <<>>)
                  ELSE Handled(IF Has(fmod.mask, {"IN_MODIFY"}) THEN "fileEventModified"
                               ELSE "fileEventAccessed", fi, <<>>)
             ELSE Handled("", fi, <<>>)
    ELSE handleDirEvents_Gone(fmod, fi, fullPath)

\* HandleWatchedFiles, lines 790-795: the handler is chosen by the file modes
Classify(fmod, fi, obs, fullPath, path) ==
    IF fi.IsDir \/ (obs.info # None /\ obs.info.IsDir)
    THEN handleDirEvents(fmod, fi, obs, fullPath, path)
    ELSE handleFileEvents(fmod, fi, obs, fullPath)

\* ------------------------------------------------------- target discovery
Range(seq) == {seq[i] : i \in 1..Len(seq)}

getBaseDirPrefix(filter) ==
    LET dir0 == Unescape(filter.Path)
        index == IndexOf(dir0, <<".*">>, 1)
        dir == IF index > 1 THEN SubSeq(dir0, 1, index - 2) ELSE dir0
    IN  IF filter.Regex = <<>> THEN Dir(dir) ELSE dir

\* a FileInfoExt as getDirFileList builds it
FileInfoExt(fpath, isDir, filter) ==
    [ContainerId |-> "",
     Path |-> fpath,
     IsDir |-> isDir,
     Hash |-> "0",
     Link |-> <<>>,
     Filter |-> [path |-> filterIndexKey(filter), recursive |-> filter.Recursive],
     Protect |-> (filter.Behavior = "block_access"),
     UserAdded |-> filter.CustomerAdd]

\* getDirFileList: the directory targets (with their children) and the single files
getDirFileList(pid, res, filter) ==
    LET base == Unescape(filter.Path)
        baseD == base \o <<"/">>
        DirOK(d) == /\ (d = base \/ HasPrefix(d, baseD))
                    /\ (filter.Recursive \/ Len(d) <= Len(base))
        FileOK(f) == \/ f = base
                     \/ /\ HasPrefix(f, baseD)
                        /\ RegexMatch(Dir(f) \o <<"/">> \o filter.Regex, f)
                        /\ (filter.Recursive \/ Dir(f) = base)
        dirs == {ContainerFilePath(pid, d) : d \in {x \in Range(res.Dirs) : DirOK(x)}}
        files == SelectSeq(res.Files, FileOK)
        fpaths == [i \in 1..Len(files) |-> ContainerFilePath(pid, files[i])]
        IsSingle(fp) == Dir(fp) \notin dirs
    IN  [dirList |-> [d \in dirs |->
                        [fi |-> FileInfoExt(d, TRUE, filter),
                         Children |-> {fp \in Range(fpaths) : Dir(fp) = d}]],
         singleFiles |-> [i \in 1..Len(SelectSeq(fpaths, IsSingle)) |->
                            FileInfoExt(SelectSeq(fpaths, IsSingle)[i], FALSE, filter)]]

\* getDirAndFileList: one filter's targets merged into dirList
getDirAndFileList(pid, res, filter, acc) ==
    LET got == getDirFileList(pid, res, filter)
        old == acc.dirList
        new == got.dirList
    IN  [dirList |-> [d \in DOMAIN old \cup DOMAIN new |->
                        IF d \in DOMAIN old
                        THEN [old[d] EXCEPT !.Children =
                                 @ \cup (IF d \in DOMAIN new THEN new[d].Children ELSE {})]
                        ELSE new[d]],
         singleFiles |-> acc.singleFiles \o got.singleFiles]

RECURSIVE CoreOver(_, _, _, _)
CoreOver(pid, res, filters, acc) ==
    IF filters = <<>> THEN acc
    ELSE CoreOver(pid, res, Tail(filters), getDirAndFileList(pid, res, Head(filters), acc))

\* getCoreFile_ArmUnwalked: after a failed walk the files the filters name are
\* taken as targets all the same
getCoreFile_ArmUnwalked(pid, profile, res) ==
    LET empty == [dirList |-> <<>>, singleFiles |-> <<>>]
    IN  IF res = None
        THEN [dirList |-> <<>>,
              singleFiles |-> [i \in 1..Len(profile.Filters) |->
                  FileInfoExt(ContainerFilePath(pid, profile.Filters[i].Path), FALSE,
                              profile.Filters[i])]]
        ELSE CoreOver(pid, res, profile.FiltersCRD,
                      CoreOver(pid, res, profile.Filters, empty))

\* getCoreFile; res = None is the failed walk (getRootFs returned nil)
getCoreFile(pid, profile, res) ==
    LET empty == [dirList |-> <<>>, singleFiles |-> <<>>]
    IN  IF res = None THEN empty
        ELSE CoreOver(pid, res, profile.FiltersCRD,
                      CoreOver(pid, res, profile.Filters, empty))

\* addCoreFile: the FileInfoExt objects handed to the drivers, keyed by their path
RECURSIVE AddSingles(_, _, _, _)
AddSingles(bIncINotify, cid, core, i) ==
    IF i > Len(core.singleFiles) THEN <<>>
    ELSE LET finfo == core.singleFiles[i]
             moved == /\ Dir(finfo.Path) \in DOMAIN core.dirList
                      /\ ~isRunTimeAddedFile(finfo.Path)
             fi == [finfo EXCEPT !.ContainerId = cid]
         IN  (IF moved THEN <<>>
              ELSE <<[obj |-> fi, op |-> OpAddFile(bIncINotify, fi, fi.Path)]>>)
             \o AddSingles(bIncINotify, cid, core, i + 1)

MovedChildren(core, d) ==
    {core.singleFiles[i].Path : i \in {j \in 1..Len(core.singleFiles) :
        /\ Dir(core.singleFiles[j].Path) = d
        /\ ~isRunTimeAddedFile(core.singleFiles[j].Path)}}

RECURSIVE AddDirs(_, _, _, _)
AddDirs(bIncINotify, cid, core, todo) ==
    IF todo = {} THEN <<>>
    ELSE LET d == CHOOSE x \in todo : TRUE
             fi == [core.dirList[d].fi EXCEPT !.ContainerId = cid]
             files == {Base(fp) : fp \in core.dirList[d].Children \cup MovedChildren(core, d)}
         IN  <<[obj |-> fi, op |-> OpAddDir(bIncINotify, fi, fi.Path, files)]>>
             \o AddDirs(bIncINotify, cid, core, todo \ {d})

addCoreFile(bIncINotify, cid, core) ==
    AddSingles(bIncINotify, cid, core, 1)
    \o AddDirs(bIncINotify, cid, core, DOMAIN core.dirList)

\* ------------------------------------------------------------------ state
VARIABLES
    groups,         \* FileWatch.groups: root pid -> groupInfo
    fileEvents,     \* FileWatch.fileEvents: host path -> fileMod
    finfos,         \* the FileInfoExt objects the drivers hold, by the path they were built for
    fanotifier,     \* the fanotify driver's tables
    inotifier,      \* the inotify driver's tables
    walkerLimiter,  \* permits of the walker semaphore in use
    call,           \* per calling goroutine: the exported operation in progress
    loop,           \* the goroutine of FileWatch.loop
    sent,           \* the reports the last step handed to the report callback
    sentRules,      \* the batch the last step handed to the rule callback
    ruleErr,        \* whether the rule callback of the last step returned an error
    locked,         \* where it is traced (not ""): whether the last step ran a section
                    \* between mux.Lock and mux.Unlock ("locked") or not ("unlocked")
    returned,       \* the exported call that returned in the last step
    now,            \* seconds since the monitor was constructed
    delivered       \* the driver callbacks since the last flush snapshot

vars == <<groups, fileEvents, finfos, fanotifier, inotifier, walkerLimiter, call, loop,
          sent, sentRules, ruleErr, locked, returned, now, delivered>>

\* FileWatch.bEnable of the modelled configuration (ProfileEnable was set)
bEnable == TRUE

Without(f, keys) == [k \in DOMAIN f \ keys |-> f[k]]
PidOf(fullPath) == ParseContainerFilePath(fullPath).pid
CidOf(pid) == <<"c1", "c2", "c3", "c4">>[pid]

\* ------------------------------------------------------------- the drivers
Drivers(fan, ino) == [fan |-> fan, ino |-> ino]

ApplyOp(d, op) ==
    CASE op.op = "addFile" ->
           Drivers([d.fan EXCEPT !.marks = (op.path :> [dir |-> FALSE, fid |-> op.fid,
                                                         files |-> {}]) @@ @],
                   IF op.inotify /\ ~op.wildcard
                   THEN [d.ino EXCEPT !.marks = (op.path :> [dir |-> FALSE, fid |-> op.fid,
                                                             files |-> {}]) @@ @]
                   ELSE d.ino)
      [] op.op = "addDir" ->
           Drivers([d.fan EXCEPT !.marks = (op.path :> [dir |-> TRUE, fid |-> op.fid,
                                                         files |-> op.files]) @@ @],
                   IF op.inotify
                   THEN [d.ino EXCEPT !.marks = (op.path :> [dir |-> TRUE, fid |-> op.fid,
                                                             files |-> {}]) @@ @]
                   ELSE d.ino)
      [] OTHER ->
           Drivers([d.fan EXCEPT !.marks = Without(@, {op.path})],
                   [d.ino EXCEPT !.marks = Without(@, {op.path})])

RECURSIVE ApplyOps(_, _)
ApplyOps(d, ops) ==
    IF ops = <<>> THEN d ELSE ApplyOps(ApplyOp(d, Head(ops)), Tail(ops))

\* FaNotify.ContainerCleanup and Inotify.ContainerCleanup
DriverCleanup(d, rootPid) ==
    Drivers([marks |-> Without(d.fan.marks, {q \in DOMAIN d.fan.marks : PidOf(q) = rootPid}),
             roots |-> Without(d.fan.roots, {rootPid})],
            [marks |-> Without(d.ino.marks, {q \in DOMAIN d.ino.marks : PidOf(q) = rootPid})])

\* the mark of a driver that reports events on path: its own, or its directory's
Covering(marks, path) ==
    IF path \in DOMAIN marks THEN {path}
    ELSE IF Dir(path) \in DOMAIN marks /\ marks[Dir(path)].dir THEN {Dir(path)}
    ELSE {}

\* ----------------------------------------------------------- the aggregator
\* cbNotify_NoDedup: the merge that appends every process it is given
cbNotify_NoDedup(events, filePath, mask, params, pInfo) ==
    IF filePath \in DOMAIN events
    THEN [events EXCEPT ![filePath] =
            [mask |-> events[filePath].mask \cup mask,
             finfo |-> events[filePath].finfo,
             pInfo |-> IF pInfo # None THEN Append(events[filePath].pInfo, pInfo)
                       ELSE events[filePath].pInfo]]
    ELSE (filePath :> [mask |-> mask,
                       finfo |-> params,
                       pInfo |-> IF pInfo # None THEN <<pInfo>> ELSE <<>>]) @@ events

\* cbNotify, lines 523-549: the event merged into fileEvents
Merged(events, filePath, mask, params, pInfo) ==
    IF filePath \in DOMAIN events
    THEN LET fm == events[filePath]
             found == pInfo # None /\ \E i \in 1..Len(fm.pInfo) : fm.pInfo[i].Pid = pInfo.Pid
         IN  [events EXCEPT ![filePath] =
                [mask |-> fm.mask \cup mask,
                 finfo |-> fm.finfo,
                 pInfo |-> IF pInfo # None /\ ~found THEN Append(fm.pInfo, pInfo)
                           ELSE fm.pInfo]]
    ELSE (filePath :> [mask |-> mask,
                       finfo |-> params,
                       pInfo |-> IF pInfo # None THEN <<pInfo>> ELSE <<>>]) @@ events

NoOutput == sent' = <<>> /\ sentRules' = <<>> /\ ruleErr' = FALSE
NoCall == [op |-> "", rootPid |-> 0, leave |-> FALSE]
NoReturn == returned' = NoCall

\* the step runs, or does not run, a section under FileWatch.mux
UnderMux(held) ==
    locked' = IF locked = "" THEN "" ELSE IF held THEN "locked" ELSE "unlocked"
\* Lock_Omitted: the section runs without mux.Lock
Lock_Omitted == UnderMux(FALSE)
Locked == UnderMux(TRUE)
Unlocked == UnderMux(FALSE)

\* cbNotify_MergeIgnored: the callback that also merges the event of a released
\* watch into fileEvents
cbNotify_MergeIgnored(filePath, mask, params, pInfo) ==
    /\ IF Has(mask, {"IN_IGNORED", "IN_UNMOUNT"})
       THEN /\ fanotifier' = ApplyOp(Drivers(fanotifier, inotifier),
                                     OpRemoveFile(filePath)).fan
            /\ inotifier' = ApplyOp(Drivers(fanotifier, inotifier),
                                    OpRemoveFile(filePath)).ino
            /\ fileEvents' = Merged(fileEvents, filePath, mask, params, pInfo)
       ELSE /\ fileEvents' = Merged(fileEvents, filePath, mask, params, pInfo)
            /\ UNCHANGED <<fanotifier, inotifier>>
    /\ NoOutput
    /\ NoReturn
    /\ UnderMux(~Has(mask, {"IN_IGNORED", "IN_UNMOUNT"}))
    /\ UNCHANGED <<groups, finfos, walkerLimiter, call, loop, now>>

\* cbNotify(filePath, mask, params, pInfo)
cbNotify(filePath, mask, params, pInfo) ==
    /\ IF Has(mask, {"IN_IGNORED", "IN_UNMOUNT"})
       THEN /\ fanotifier' = ApplyOp(Drivers(fanotifier, inotifier),
                                     OpRemoveFile(filePath)).fan
            /\ inotifier' = ApplyOp(Drivers(fanotifier, inotifier),
                                    OpRemoveFile(filePath)).ino
            /\ UNCHANGED fileEvents
       ELSE /\ fileEvents' = Merged(fileEvents, filePath, mask, params, pInfo)
            /\ UNCHANGED <<fanotifier, inotifier>>
    /\ NoOutput
    /\ NoReturn
    /\ UnderMux(~Has(mask, {"IN_IGNORED", "IN_UNMOUNT"}))
    /\ UNCHANGED <<groups, finfos, walkerLimiter, call, loop, now>>

\* the fanotify reader delivers an event of a started root; opens are only
\* requested for a root in access or permission mode
FanNotify(filePath, mask, pInfo) ==
    /\ PidOf(filePath) \in DOMAIN fanotifier.roots
    /\ fanotifier.roots[PidOf(filePath)].started
    /\ Has(mask, {"IN_ACCESS"}) =>
          fanotifier.roots[PidOf(filePath)].access \/ fanotifier.roots[PidOf(filePath)].perm
    /\ \E m \in Covering(fanotifier.marks, filePath) :
          cbNotify(filePath, mask, fanotifier.marks[m].fid, pInfo)

\* the inotify reader delivers an event; inotify names no process
InoNotify(filePath, mask) ==
    \E m \in Covering(inotifier.marks, filePath) :
        cbNotify(filePath, mask, inotifier.marks[m].fid, None)

\* ----------------------------------------------------- exported operations
IdleCall ==
    [pc |-> "idle", op |-> "", rootPid |-> 0, profile |-> None, rule |-> None,
     capBlock |-> FALSE, isNV |-> FALSE, leave |-> FALSE, access |-> FALSE, perm |-> FALSE,
     mode |-> "", aufs |-> FALSE, walked |-> FALSE, local |-> None]

\* the call of goroutine c returns
Returns(c) ==
    /\ call' = [call EXCEPT ![c] = IdleCall]
    /\ returned' = [op |-> call[c].op, rootPid |-> call[c].rootPid, leave |-> call[c].leave]

\* the call of goroutine c goes on from record a
Continues(c, a) ==
    /\ call' = [call EXCEPT ![c] = a]
    /\ NoReturn

\* StartWatch, lines 721-723: an unset mode is Learn
ModeOf(profile) == IF profile.Mode = "" THEN PolicyModeLearn ELSE profile.Mode

\* StartWatch_AccessByMode: the flags that ask for open events in Learn mode
\* whatever the root is
StartWatch_AccessByMode(rootPid, mode, aufs, capBlock, bNeuvectorSvc) ==
    [perm |-> mode = PolicyModeEnforce /\ ~aufs /\ capBlock,
     access |-> mode = PolicyModeLearn]

\* StartWatch, lines 724-736: the permission and access flags handed to SetMode
ModeFlags(rootPid, mode, aufs, capBlock, bNeuvectorSvc) ==
    LET perm == mode = PolicyModeEnforce /\ ~aufs /\ capBlock
    IN  [perm |-> perm,
         access |-> /\ ~perm
                    /\ ~(rootPid = 1 \/ bNeuvectorSvc)
                    /\ mode = PolicyModeLearn]

\* StartWatch, lines 708-737 and getRootFs line 623: the mode defaults, then Acquire
StartWatch_Acquire(c, rootPid, conf, capBlock, bNeuvectorSvc, aufs, pidValid) ==
    /\ call[c].pc = "idle"
    /\ bEnable
    /\ IF ~pidValid
       THEN /\ UNCHANGED walkerLimiter
            /\ call' = call
            /\ returned' = [op |-> "StartWatch", rootPid |-> rootPid, leave |-> FALSE]
       ELSE LET mode == ModeOf(conf.Profile)
                flags == ModeFlags(rootPid, mode, aufs, capBlock, bNeuvectorSvc)
            IN  /\ walkerLimiter < walkerMaxCount
                /\ walkerLimiter' = walkerLimiter + 1
                /\ Continues(c,
                      [pc |-> "walk", op |-> "StartWatch", rootPid |-> rootPid,
                       profile |-> [conf.Profile EXCEPT !.Mode = mode],
                       rule |-> conf.Rule, capBlock |-> capBlock,
                       isNV |-> bNeuvectorSvc, leave |-> FALSE,
                       access |-> flags.access, perm |-> flags.perm,
                       mode |-> conf.Profile.Mode, aufs |-> aufs, walked |-> FALSE,
                       local |-> None])
    /\ NoOutput
    /\ Unlocked
    /\ UNCHANGED <<groups, fileEvents, finfos, fanotifier, inotifier, loop, now, delivered>>

RECURSIVE Objects(_)
Objects(adds) ==
    IF adds = <<>> THEN <<>>
    ELSE (Head(adds).obj.Path :> Head(adds).obj) @@ Objects(Tail(adds))

\* getRootFs_LeakOnError: the permit is only given back after a walk that succeeded
getRootFs_LeakOnError(limiter, res) == IF res = None THEN limiter ELSE limiter - 1

\* getRootFs, line 626: the deferred Release, whatever the walk returned
Released(limiter, res) == limiter - 1

\* StartWatch, lines 737-743: the walk returns and releases its permit, the mode is
\* set, the targets are armed and the root's monitor is started
StartWatch_Arm(c, res) ==
    /\ call[c].pc = "walk"
    /\ LET a == call[c]
           core == getCoreFile(a.rootPid, a.profile, res)
           adds == addCoreFile(~a.isNV, CidOf(a.rootPid), core)
           fan1 == [fanotifier EXCEPT !.roots =
                      (a.rootPid :> [access |-> a.access, perm |-> a.perm,
                                     capBlock |-> a.capBlock, isNV |-> a.isNV,
                                     started |-> TRUE,
                                     rule |-> IF a.rootPid \in DOMAIN @
                                              THEN @[a.rootPid].rule ELSE None]) @@ @]
           d == ApplyOps(Drivers(fan1, inotifier), [i \in 1..Len(adds) |-> adds[i].op])
       IN  /\ fanotifier' = d.fan
           /\ inotifier' = d.ino
           /\ finfos' = Objects(adds) @@ finfos
    /\ walkerLimiter' = Released(walkerLimiter, res)
    /\ Continues(c, [call[c] EXCEPT !.pc = "register", !.walked = (res # None)])
    /\ NoOutput
    /\ Unlocked
    /\ UNCHANGED <<groups, fileEvents, loop, now, delivered>>

\* UpdateAccessRules, lines 485-494: apply_rules rebuilt from the rule
AppliedRules(conf) ==
    LET keys == {k \in DOMAIN conf.Filters : conf.Filters[k].CustomerAdd}
    IN  [k \in keys |-> conf.Filters[k].Apps]

\* UpdateAccessRules_ResetLearned: the update that also forgets the learned rules
UpdateAccessRules_ResetLearned(grp, conf) ==
    [grp EXCEPT !.applyRules = AppliedRules(conf), !.learnRules = <<>>]

\* UpdateAccessRules_Merge: the update that adds the rule's entries to those the
\* group has
UpdateAccessRules_Merge(grp, conf) ==
    [grp EXCEPT !.applyRules = AppliedRules(conf) @@ @]

\* UpdateAccessRules, lines 477-495: the section under the mutex
UpdateAccessRules_Locked(grp, conf) ==
    [grp EXCEPT !.applyRules = AppliedRules(conf)]

\* StartWatch_RegisterRestart: the registration that restarts the grace period of
\* a group it finds
StartWatch_RegisterRestart(c) ==
    /\ call[c].pc = "register"
    /\ LET a == call[c]
           grp == IF a.rootPid \in DOMAIN groups THEN groups[a.rootPid]
                  ELSE [bNeuvector |-> a.isNV, profile |-> None, mode |-> "",
                        applyRules |-> <<>>, learnRules |-> <<>>, startAt |-> now]
       IN  /\ groups' = (a.rootPid :> [grp EXCEPT !.startAt = now, !.profile = a.profile,
                                                  !.mode = a.profile.Mode]) @@ groups
           /\ IF a.isNV \/ a.rootPid = 1 \/ a.rule = None
              THEN Returns(c)
              ELSE Continues(c, [call[c] EXCEPT !.pc = "rules"])
    /\ NoOutput
    /\ Locked
    /\ UNCHANGED <<fileEvents, finfos, fanotifier, inotifier, walkerLimiter, loop, now,
                   delivered>>

\* StartWatch, lines 745-768: the group is registered under the mutex
StartWatch_Register(c) ==
    /\ call[c].pc = "register"
    /\ LET a == call[c]
           grp == IF a.rootPid \in DOMAIN groups THEN groups[a.rootPid]
                  ELSE [bNeuvector |-> a.isNV, profile |-> None, mode |-> "",
                        applyRules |-> <<>>, learnRules |-> <<>>, startAt |-> now]
       IN  /\ groups' = (a.rootPid :> [grp EXCEPT !.profile = a.profile,
                                                  !.mode = a.profile.Mode]) @@ groups
           /\ IF a.isNV \/ a.rootPid = 1 \/ a.rule = None
              THEN Returns(c)
              ELSE Continues(c, [call[c] EXCEPT !.pc = "rules"])
    /\ NoOutput
    /\ Locked
    /\ UNCHANGED <<fileEvents, finfos, fanotifier, inotifier, walkerLimiter, loop, now,
                   delivered>>

\* UpdateAccessRules, lines 477-495, for the rule in call[c]
UpdateAccessRules_Lock(c, op, rootPid, conf) ==
    /\ IF rootPid \in DOMAIN groups
       THEN /\ groups' = [groups EXCEPT ![rootPid] = UpdateAccessRules_Locked(@, conf)]
            /\ Continues(c, [IdleCall EXCEPT !.pc = "fanRule", !.op = op,
                                              !.rootPid = rootPid, !.rule = conf])
       ELSE /\ UNCHANGED groups
            /\ call' = [call EXCEPT ![c] = IdleCall]
            /\ returned' = [op |-> op, rootPid |-> rootPid, leave |-> FALSE]
    /\ NoOutput
    /\ Locked
    /\ UNCHANGED <<fileEvents, finfos, fanotifier, inotifier, walkerLimiter, loop, now,
                   delivered>>

\* UpdateAccessRules called from StartWatch, line 766
StartWatch_Rules(c) ==
    /\ call[c].pc = "rules"
    /\ UpdateAccessRules_Lock(c, "StartWatch", call[c].rootPid, call[c].rule)

\* UpdateAccessRules(name, rootPid, conf) called by the agent
UpdateAccessRules(c, rootPid, conf) ==
    /\ call[c].pc = "idle"
    /\ bEnable
    /\ UpdateAccessRules_Lock(c, "UpdateAccessRules", rootPid, conf)

\* UpdateAccessRules, lines 497-499: the rule is handed to the fanotify driver
UpdateAccessRules_Fan(c) ==
    /\ call[c].pc = "fanRule"
    /\ fanotifier' = IF call[c].rootPid \in DOMAIN fanotifier.roots
                     THEN [fanotifier EXCEPT !.roots[call[c].rootPid].rule = call[c].rule]
                     ELSE fanotifier
    /\ Returns(c)
    /\ NoOutput
    /\ Unlocked
    /\ UNCHANGED <<groups, fileEvents, finfos, inotifier, walkerLimiter, loop, now,
                   delivered>>

\* ContainerCleanup, lines 953-957: cleanup is requested on both drivers
ContainerCleanup_Drivers(c, rootPid, bLeave) ==
    /\ call[c].pc = "idle"
    /\ bEnable
    /\ fanotifier' = DriverCleanup(Drivers(fanotifier, inotifier), rootPid).fan
    /\ inotifier' = DriverCleanup(Drivers(fanotifier, inotifier), rootPid).ino
    /\ Continues(c, [IdleCall EXCEPT !.pc = "cleanup", !.op = "ContainerCleanup",
                                      !.rootPid = rootPid, !.leave = bLeave])
    /\ NoOutput
    /\ Unlocked
    /\ UNCHANGED <<groups, fileEvents, finfos, walkerLimiter, loop, now, delivered>>

\* ContainerCleanup_KeepEvents: the cleanup that forgets the pending events
ContainerCleanup_KeepEvents(events, rootPid) == events

\* ContainerCleanup, lines 961-965
CleanedEvents(events, rootPid) ==
    Without(events, {q \in DOMAIN events : PidOf(q) = rootPid})

\* ContainerCleanup_ResetAll: the reset that empties the rules of every group
ContainerCleanup_ResetAll(grps, rootPid, bLeave) ==
    IF rootPid \in DOMAIN grps
    THEN IF bLeave THEN Without(grps, {rootPid})
         ELSE [p \in DOMAIN grps |->
                 [grps[p] EXCEPT !.learnRules = <<>>, !.applyRules = <<>>]]
    ELSE grps

\* ContainerCleanup, lines 967-975
CleanedGroups(grps, rootPid, bLeave) ==
    IF rootPid \in DOMAIN grps
    THEN IF bLeave THEN Without(grps, {rootPid})
         ELSE [grps EXCEPT ![rootPid].learnRules = <<>>, ![rootPid].applyRules = <<>>]
    ELSE grps

\* ContainerCleanup, lines 959-976: the section under the mutex
ContainerCleanup_Lock(c) ==
    /\ call[c].pc = "cleanup"
    /\ fileEvents' = CleanedEvents(fileEvents, call[c].rootPid)
    /\ groups' = CleanedGroups(groups, call[c].rootPid, call[c].leave)
    /\ delivered' = SelectSeq(delivered, LAMBDA e : PidOf(e.path) # call[c].rootPid)
    /\ Returns(c)
    /\ NoOutput
    /\ Locked
    /\ UNCHANGED <<finfos, fanotifier, inotifier, walkerLimiter, loop, now>>

\* SendNVProcessAlert, lines 1099-1105: the group is looked up under the mutex
SendNVProcessAlert_Lock(c, rootPid, ppid, cid, path, ppath) ==
    /\ call[c].pc = "idle"
    /\ IF rootPid \in DOMAIN groups
       THEN Continues(c, [IdleCall EXCEPT
                             !.pc = "alert", !.op = "SendNVProcessAlert",
                             !.rootPid = rootPid, !.profile = groups[rootPid].profile,
                             !.local = [ppid |-> ppid, cid |-> cid, path |-> path,
                                        ppath |-> ppath]])
       ELSE /\ call' = call
            /\ returned' = [op |-> "SendNVProcessAlert", rootPid |-> rootPid,
                            leave |-> FALSE]
    /\ NoOutput
    /\ Locked
    /\ UNCHANGED <<groups, fileEvents, finfos, fanotifier, inotifier, walkerLimiter, loop,
                   now, delivered>>

fsNvProtectProcAlert == "NV.Protect: Process alert"

\* SendNVProcessAlert, lines 1106-1122: the alert goes to the report callback. The
\* profile of the group is read after the mutex was released, while StartWatch may
\* replace it (line 756): the read yields the profile of the lookup or the new one
SendNVProcessAlert_Send(c) ==
    /\ call[c].pc = "alert"
    /\ \E profile \in {call[c].profile} \cup
                       (IF call[c].rootPid \in DOMAIN groups
                        THEN {groups[call[c].rootPid].profile} ELSE {}) :
          sent' = << [ID |-> call[c].local.cid,
                      Path |-> call[c].local.path,
                      Group |-> IF profile # None THEN profile.Group ELSE "",
                      Proc |-> [Pid |-> call[c].local.ppid, Path |-> call[c].local.path,
                                PPid |-> call[c].local.ppid,
                                PPath |-> call[c].local.ppath],
                      Msg |-> fsNvProtectProcAlert,
                      Action |-> PolicyActionDeny] >>
    /\ sentRules' = <<>>
    /\ ruleErr' = FALSE
    /\ Returns(c)
    /\ Unlocked
    /\ UNCHANGED <<groups, fileEvents, finfos, fanotifier, inotifier, walkerLimiter, loop,
                   now, delivered>>

\* GetProbeData, lines 994-1002: the two maps are counted under the mutex
GetProbeData_Lock(c) ==
    /\ call[c].pc = "idle"
    /\ bEnable
    /\ Continues(c, [IdleCall EXCEPT
                        !.pc = "probe", !.op = "GetProbeData",
                        !.local = [NFileEvents |-> Cardinality(DOMAIN fileEvents),
                                   NGroups |-> Cardinality(DOMAIN groups)]])
    /\ NoOutput
    /\ Locked
    /\ UNCHANGED <<groups, fileEvents, finfos, fanotifier, inotifier, walkerLimiter, loop,
                   now, delivered>>

\* GetProbeData, lines 1004-1012: the drivers add their own counters
GetProbeData_Drivers(c) ==
    /\ call[c].pc = "probe"
    /\ Returns(c)
    /\ NoOutput
    /\ Unlocked
    /\ UNCHANGED <<groups, fileEvents, finfos, fanotifier, inotifier, walkerLimiter, loop,
                   now, delivered>>

\* ------------------------------------------------------- the ticker loop
IdleLoop == [pc |-> "idle", events |-> <<>>, cur |-> None, batch |-> <<>>]

\* HandleWatchedFiles_CloneOnly: the snapshot that does not reset the map
HandleWatchedFiles_CloneOnly(events) == events

\* HandleWatchedFiles, line 778: fileEvents after the snapshot
ResetEvents(events) == <<>>

\* HandleWatchedFiles, lines 771-779: the snapshot under the mutex
HandleWatchedFiles_Snapshot ==
    /\ loop.pc = "idle"
    /\ loop' = [loop EXCEPT !.events = fileEvents,
                            !.pc = IF DOMAIN fileEvents = {} THEN "idle" ELSE "flush"]
    /\ fileEvents' = ResetEvents(fileEvents)
    /\ delivered' = <<>>
    /\ NoOutput
    /\ NoReturn
    /\ Locked
    /\ UNCHANGED <<groups, finfos, fanotifier, inotifier, walkerLimiter, call, now>>

AfterEvent(events) == IF DOMAIN events = {} THEN "idle" ELSE "flush"

\* Flush_Event_AnyPid: the flush that handles an event whether or not its root
\* pid is a valid process
Flush_Event_AnyPid(fullPath, pidValid, obs) ==
    /\ loop.pc = "flush"
    /\ fullPath \in DOMAIN loop.events
    /\ LET fmod == loop.events[fullPath]
           pp == ParseContainerFilePath(fullPath)
           rest == Without(loop.events, {fullPath})
           h == Classify(fmod, finfos[fmod.finfo], obs, fullPath, pp.path)
           d == ApplyOps(Drivers(fanotifier, inotifier), h.ops)
       IN  IF FALSE
           THEN /\ loop' = [loop EXCEPT !.events = rest, !.pc = AfterEvent(rest)]
                /\ Unlocked
                /\ UNCHANGED <<groups, finfos, fanotifier, inotifier>>
           ELSE /\ finfos' = [finfos EXCEPT ![fmod.finfo] = h.fi]
                /\ UnderMux(h.event # "")  \* learnFromEvents locks, line 428
                /\ fanotifier' = d.fan
                /\ inotifier' = d.ino
                /\ IF h.event # "" /\ pp.pid \in DOMAIN groups
                   THEN /\ groups' = [groups EXCEPT ![pp.pid] =
                                         LearnedGroup(@, pp.path, fmod.pInfo)]
                        /\ loop' = [loop EXCEPT
                              !.events = rest,
                              !.pc = "report",
                              !.cur = [rootPid |-> pp.pid, fmod |-> fmod, path |-> pp.path,
                                       info |-> obs.info,
                                       event |-> h.event, mode |-> groups[pp.pid].mode,
                                       startAt |-> groups[pp.pid].startAt]]
                   ELSE /\ loop' = [loop EXCEPT !.events = rest, !.pc = AfterEvent(rest)]
                        /\ UNCHANGED groups
    /\ NoOutput
    /\ NoReturn
    /\ UNCHANGED <<fileEvents, walkerLimiter, call, now, delivered>>

\* HandleWatchedFiles, lines 781-800, and learnFromEvents, lines 428-449: one
\* snapshotted event is classified and, under the mutex, learned from
Flush_Event(fullPath, pidValid, obs) ==
    /\ loop.pc = "flush"
    /\ fullPath \in DOMAIN loop.events
    /\ LET fmod == loop.events[fullPath]
           pp == ParseContainerFilePath(fullPath)
           rest == Without(loop.events, {fullPath})
           h == Classify(fmod, finfos[fmod.finfo], obs, fullPath, pp.path)
           d == ApplyOps(Drivers(fanotifier, inotifier), h.ops)
       IN  IF ~pidValid
           THEN /\ loop' = [loop EXCEPT !.events = rest, !.pc = AfterEvent(rest)]
                /\ Unlocked
                /\ UNCHANGED <<groups, finfos, fanotifier, inotifier>>
           ELSE /\ finfos' = [finfos EXCEPT ![fmod.finfo] = h.fi]
                /\ UnderMux(h.event # "")  \* learnFromEvents locks, line 428
                /\ fanotifier' = d.fan
                /\ inotifier' = d.ino
                /\ IF h.event # "" /\ pp.pid \in DOMAIN groups
                   THEN /\ groups' = [groups EXCEPT ![pp.pid] =
                                         LearnedGroup(@, pp.path, fmod.pInfo)]
                        /\ loop' = [loop EXCEPT
                              !.events = rest,
                              !.pc = "report",
                              !.cur = [rootPid |-> pp.pid, fmod |-> fmod, path |-> pp.path,
                                       info |-> obs.info,
                                       event |-> h.event, mode |-> groups[pp.pid].mode,
                                       startAt |-> groups[pp.pid].startAt]]
                   ELSE /\ loop' = [loop EXCEPT !.events = rest, !.pc = AfterEvent(rest)]
                        /\ UNCHANGED groups
    /\ NoOutput
    /\ NoReturn
    /\ UNCHANGED <<fileEvents, walkerLimiter, call, now, delivered>>

\* learnFromEvents, lines 451-468, outside the mutex: the event is reported or skipped
Flush_Report ==
    /\ loop.pc = "report"
    /\ LET cur == loop.cur
           fi == finfos[cur.fmod.finfo]
       IN  sent' = IF ShouldReport(cur.path, cur.event, cur.mode, now - cur.startAt)
                   THEN sendMsg(fi.ContainerId, ReportPath(cur.path, fi.Link), cur.event,
                                cur.fmod.pInfo, cur.mode)
                   ELSE <<>>
    /\ sentRules' = <<>>
    /\ ruleErr' = FALSE
    /\ NoReturn
    /\ loop' = [loop EXCEPT !.cur = None, !.pc = AfterEvent(loop.events)]
    /\ Unlocked
    /\ UNCHANGED <<groups, fileEvents, finfos, fanotifier, inotifier, walkerLimiter, call,
                   now, delivered>>

\* reportLearningRules_Distinct: the batch that holds a triple once however many
\* groups learned it
reportLearningRules_Distinct(grps) ==
    LET In(p) == UNION {{<<grps[p].profile.Group, k, x>> : x \in grps[p].learnRules[k]} :
                           k \in DOMAIN grps[p].learnRules}
    IN  [t \in UNION {In(p) : p \in DOMAIN grps} |-> 1]

\* reportLearningRules, lines 351-376: the batch as a bag of (group, filter, path)
LearnBatch(grps) ==
    LET Of(p) == {<<grps[p].profile.Group, k, prf>> :
                     k \in DOMAIN grps[p].learnRules, prf \in UNION {grps[p].learnRules[j] :
                                                            j \in DOMAIN grps[p].learnRules}}
        In(p) == {t \in Of(p) : t[3] \in grps[p].learnRules[t[2]]}
    IN  [t \in UNION {In(p) : p \in DOMAIN grps} |->
            Cardinality({p \in DOMAIN grps : t \in In(p)})]

\* reportLearningRules_KeepLearned: the learn tick that batches the learned rules
\* and leaves them in the groups
reportLearningRules_KeepLearned ==
    /\ loop.pc = "idle"
    /\ groups' = groups
    /\ loop' = [loop EXCEPT !.batch = LearnBatch(groups),
                            !.pc = IF DOMAIN LearnBatch(groups) = {} THEN "idle"
                                   ELSE "sendRule"]
    /\ NoOutput
    /\ NoReturn
    /\ Locked
    /\ UNCHANGED <<fileEvents, finfos, fanotifier, inotifier, walkerLimiter, call, now,
                   delivered>>

\* reportLearningRules, lines 350-377: the section under the mutex
reportLearningRules_Collect ==
    /\ loop.pc = "idle"
    /\ groups' = [p \in DOMAIN groups |-> [groups[p] EXCEPT !.learnRules = <<>>]]
    /\ loop' = [loop EXCEPT !.batch = LearnBatch(groups),
                            !.pc = IF DOMAIN LearnBatch(groups) = {} THEN "idle"
                                   ELSE "sendRule"]
    /\ NoOutput
    /\ NoReturn
    /\ Locked
    /\ UNCHANGED <<fileEvents, finfos, fanotifier, inotifier, walkerLimiter, call, now,
                   delivered>>

\* reportLearningRules_Requeue: the error handler that puts the batch back into
\* the groups it was collected from
reportLearningRules_Requeue(grps, batch) ==
    [p \in DOMAIN grps |->
        [grps[p] EXCEPT !.learnRules =
            LET keys == {t[2] : t \in {u \in DOMAIN batch : u[1] = grps[p].profile.Group}}
            IN  [k \in keys |-> {t[3] : t \in {u \in DOMAIN batch :
                                                  u[1] = grps[p].profile.Group /\ u[2] = k}}]]]

\* reportLearningRules, lines 379-381: the groups after the rule callback returned
\* an error, which is only logged
RuleErrorLogged(grps, batch) == grps

\* reportLearningRules_SendLocked: the rule callback is invoked before the mutex
\* is released
reportLearningRules_SendLocked(failed) ==
    /\ loop.pc = "sendRule"
    /\ sentRules' = loop.batch
    /\ ruleErr' = failed
    /\ sent' = <<>>
    /\ NoReturn
    /\ groups' = IF failed THEN RuleErrorLogged(groups, loop.batch) ELSE groups
    /\ loop' = [loop EXCEPT !.batch = <<>>, !.pc = "idle"]
    /\ Locked
    /\ UNCHANGED <<fileEvents, finfos, fanotifier, inotifier, walkerLimiter, call,
                   now, delivered>>

\* reportLearningRules, lines 378-382: the batch goes to the rule callback
reportLearningRules_Send(failed) ==
    /\ loop.pc = "sendRule"
    /\ sentRules' = loop.batch
    /\ ruleErr' = failed
    /\ sent' = <<>>
    /\ NoReturn
    /\ groups' = IF failed THEN RuleErrorLogged(groups, loop.batch) ELSE groups
    /\ loop' = [loop EXCEPT !.batch = <<>>, !.pc = "idle"]
    /\ Unlocked
    /\ UNCHANGED <<fileEvents, finfos, fanotifier, inotifier, walkerLimiter, call,
                   now, delivered>>

\* time passes
Tick(seconds, limit) ==
    /\ now + seconds <= limit
    /\ now' = now + seconds
    /\ NoOutput
    /\ NoReturn
    /\ Unlocked
    /\ UNCHANGED <<groups, fileEvents, finfos, fanotifier, inotifier, walkerLimiter, call,
                   loop, delivered>>

\* ------------------------------------------------------------ the scenario
\* a profile of two filters: a monitored runtime file, and a customer-added directory
F_hosts ==
    [Path |-> <<"/", "etc", "/", "hosts">>, Regex |-> <<>>, Recursive |-> FALSE,
     CustomerAdd |-> FALSE, Behavior |-> "monitor_change"]
F_bin ==
    [Path |-> <<"/", "bin">>, Regex |-> <<".*">>, Recursive |-> TRUE,
     CustomerAdd |-> TRUE, Behavior |-> "monitor_change"]

Profile(mode) ==
    [Group |-> "nv.app", Mode |-> mode, Filters |-> <<F_hosts, F_bin>>, FiltersCRD |-> <<>>]

\* an access rule for the customer-added filter, naming the allowed applications
AccessRule(apps) ==
    [Filters |-> (filterIndexKey(F_bin) :> [CustomerAdd |-> TRUE, Apps |-> apps])]

\* what the walker finds in a container
ContainerFs ==
    [Dirs |-> << <<"/", "bin">>, <<"/", "etc">> >>,
     Files |-> << <<"/", "bin", "/", "ls">>, <<"/", "etc", "/", "hosts">> >>]

Proc(n) ==
    [Pid |-> 100 + n, Path |-> IF n = 1 THEN "/usr/bin/foo" ELSE "/usr/bin/bar",
     Name |-> IF n = 1 THEN "foo" ELSE "bar", Deny |-> FALSE]

Exists(isDir, hash) ==
    [info |-> [IsDir |-> isDir, IsSymlink |-> FALSE], hash |-> hash,
     linkIsDir |-> FALSE, newFiles |-> FALSE]
Absent == [info |-> None, hash |-> HashErr, linkIsDir |-> FALSE, newFiles |-> FALSE]

\* the state after NewFileWatcher, with the given calling goroutines; trace says
\* whether the use of the mutex is traced
InitTraced(callers, trace) ==
    /\ groups = <<>>
    /\ fileEvents = <<>>
    /\ finfos = <<>>
    /\ fanotifier = [marks |-> <<>>, roots |-> <<>>]
    /\ inotifier = [marks |-> <<>>]
    /\ walkerLimiter = 0
    /\ call = [c \in callers |-> IdleCall]
    /\ loop = IdleLoop
    /\ sent = <<>>
    /\ sentRules = <<>>
    /\ ruleErr = FALSE
    /\ locked = trace
    /\ returned = NoCall
    /\ now = 0
    /\ delivered = <<>>

InitWith(callers) == InitTraced(callers, "")

\* the steps of a calling goroutine, its arguments drawn from the given sets
CallerNext(c, pids, modes, rules, walks) ==
    \/ \E rootPid \in pids, mode \in modes, rule \in rules, pidValid \in BOOLEAN :
          StartWatch_Acquire(c, rootPid, [Profile |-> Profile(mode), Rule |-> rule],
                             TRUE, FALSE, FALSE, pidValid)
    \/ \E res \in walks : StartWatch_Arm(c, res)
    \/ StartWatch_Register(c)
    \/ StartWatch_Rules(c)
    \/ \E rootPid \in pids, rule \in rules \ {None} :
          UpdateAccessRules(c, rootPid, rule)
    \/ UpdateAccessRules_Fan(c)
    \/ \E rootPid \in pids, bLeave \in BOOLEAN :
          ContainerCleanup_Drivers(c, rootPid, bLeave)
    \/ ContainerCleanup_Lock(c)

\* the steps of the ticker loop, the file system answering from obsSet
LoopNext(obsSet) ==
    \/ HandleWatchedFiles_Snapshot
    \/ \E fullPath \in DOMAIN loop.events, pidValid \in BOOLEAN, obs \in obsSet :
          Flush_Event(fullPath, pidValid, obs)
    \/ Flush_Report
    \/ reportLearningRules_Collect
    \/ \E failed \in BOOLEAN : reportLearningRules_Send(failed)

\* ---------------------------------------------------------------- Spec:
\* one container, one calling goroutine, the ticker loop and both drivers
SpecPids == {ContainerPid}
SpecModes == {PolicyModeLearn, PolicyModeEvaluate}
SpecRules == {None, AccessRule({}), AccessRule({Proc(1).Path})}
SpecPaths == {ContainerFilePath(p, <<"/", "bin", "/", "ls">>) : p \in SpecPids}
SpecObs == {Exists(FALSE, HashErr), Absent}

Init == InitWith({1})

DriverNext ==
    \/ \E filePath \in SpecPaths, n \in 1..MaxProcs :
          FanNotify(filePath, {"IN_ACCESS"}, Proc(n)) /\ UNCHANGED delivered
    \/ \E filePath \in SpecPaths :
          InoNotify(filePath, {"IN_MODIFY"}) /\ UNCHANGED delivered

Next ==
    \/ \E c \in DOMAIN call : CallerNext(c, SpecPids, SpecModes, SpecRules, {ContainerFs, None})
    \/ LoopNext(SpecObs)
    \/ DriverNext

Spec == Init /\ [][Next]_vars

\* ----------------------------------------------------------- SpecFrame:
\* the host and one container, watched and cleaned by one calling goroutine
FramePids == {1, ContainerPid}
FramePaths == {ContainerFilePath(p, <<"/", "bin", "/", "ls">>) : p \in FramePids}

FrameNext ==
    \/ \E c \in DOMAIN call :
          CallerNext(c, FramePids, {PolicyModeLearn}, {AccessRule({})}, {ContainerFs})
    \/ LoopNext({Exists(FALSE, HashErr)})
    \/ \E filePath \in FramePaths :
          FanNotify(filePath, {"IN_MODIFY"}, Proc(1)) /\ UNCHANGED delivered

SpecFrame == Init /\ [][FrameNext]_vars

\* ------------------------------------------------------------- SpecAgg:
\* one watched container in Learn mode without access rules; the drivers deliver
\* bursts of at most MaxDelivered callbacks per window, logged in delivered
AggFile == ContainerFilePath(ContainerPid, <<"/", "bin", "/", "ls">>)
AggHosts == ContainerFilePath(ContainerPid, <<"/", "etc", "/", "hosts">>)

\* the processes the fanotify driver names: two pids, one of them seen twice with
\* a different verdict
AggProcs == {Proc(1), Proc(2), [Proc(1) EXCEPT !.Deny = TRUE]}

Logged(filePath, mask, pInfo) ==
    /\ Len(delivered) < MaxDelivered
    /\ delivered' = Append(delivered, [path |-> filePath, mask |-> mask, pInfo |-> pInfo])

AggNext ==
    \/ \E c \in DOMAIN call :
          \/ StartWatch_Acquire(c, ContainerPid,
                                [Profile |-> Profile(PolicyModeLearn), Rule |-> None],
                                TRUE, FALSE, FALSE, TRUE)
          \/ StartWatch_Arm(c, ContainerFs)
          \/ StartWatch_Register(c)
    \/ \E pInfo \in AggProcs :
          FanNotify(AggFile, {"IN_ACCESS"}, pInfo) /\ Logged(AggFile, {"IN_ACCESS"}, pInfo)
    \/ InoNotify(AggFile, {"IN_MODIFY"}) /\ Logged(AggFile, {"IN_MODIFY"}, None)
    \/ InoNotify(AggHosts, {"IN_ATTRIB"}) /\ Logged(AggHosts, {"IN_ATTRIB"}, None)
    \/ InoNotify(AggHosts, {"IN_IGNORED"}) /\ UNCHANGED delivered
    \/ HandleWatchedFiles_Snapshot
    \/ \E fullPath \in DOMAIN loop.events, pidValid \in BOOLEAN :
          Flush_Event(fullPath, pidValid, Exists(FALSE, HashErr))
    \/ Flush_Report

SpecAgg == Init /\ [][AggNext]_vars

\* ----------------------------------------------------------- SpecFlush:
\* one container watched in any of the three modes; callbacks on a runtime-added
\* file, a watched file and a new file of a watched directory are flushed while the
\* drivers are quiet, and up to MaxTicks grace periods pass. The watched files
\* stay in place; the new file may be gone when it is flushed.
FlushModes == {PolicyModeLearn, PolicyModeEvaluate, PolicyModeEnforce}
FlushHosts == ContainerFilePath(ContainerPid, <<"/", "etc", "/", "hosts">>)
FlushFile == ContainerFilePath(ContainerPid, <<"/", "bin", "/", "ls">>)
FlushNew == ContainerFilePath(ContainerPid, <<"/", "bin", "/", "new">>)
FlushProcs == {Proc(1), [Proc(2) EXCEPT !.Deny = TRUE]}

FlushNext ==
    \/ \E c \in DOMAIN call :
          \/ \E mode \in FlushModes :
                StartWatch_Acquire(c, ContainerPid,
                                   [Profile |-> Profile(mode), Rule |-> AccessRule({})],
                                   TRUE, FALSE, FALSE, TRUE)
          \/ StartWatch_Arm(c, ContainerFs)
          \/ StartWatch_Register(c)
          \/ StartWatch_Rules(c)
          \/ UpdateAccessRules_Fan(c)
    \/ /\ loop.pc = "idle"
       /\ UNCHANGED delivered
       /\ \/ \E pInfo \in FlushProcs : FanNotify(FlushHosts, {"IN_ACCESS"}, pInfo)
          \/ FanNotify(FlushFile, {"IN_ACCESS"}, Proc(1))
          \/ InoNotify(FlushHosts, {"IN_ATTRIB"})
          \/ \E mask \in {{"IN_CREATE"}, {"IN_DELETE"}} : InoNotify(FlushNew, mask)
    \/ HandleWatchedFiles_Snapshot
    \/ \E fullPath \in DOMAIN loop.events, pidValid \in BOOLEAN :
          \E obs \in {Exists(FALSE, HashErr)} \cup (IF fullPath = FlushNew THEN {Absent} ELSE {}) :
              Flush_Event(fullPath, pidValid, obs)
    \/ Flush_Report
    \/ Tick(graceSeconds, MaxTicks * graceSeconds)

SpecFlush == Init /\ [][FlushNext]_vars

\* ----------------------------------------------------------- SpecLearn:
\* two containers of one service watched in Learn mode; besides the customer-added
\* directory their profile monitors /etc/hosts and, by a CRD filter, /bin/ls, both
\* not customer-added, and the access rule has an entry under each of the three
\* keys. Processes open the files, the events are flushed, and the learning tick
\* hands the batch to a rule callback that may fail.
F_ls ==
    [Path |-> <<"/", "bin", "/", "ls">>, Regex |-> <<>>, Recursive |-> FALSE,
     CustomerAdd |-> FALSE, Behavior |-> "monitor_change"]

LearnProfile == [Profile(PolicyModeLearn) EXCEPT !.FiltersCRD = <<F_ls>>]

LearnRule ==
    [Filters |-> [k \in {filterIndexKey(F_hosts), filterIndexKey(F_bin), filterIndexKey(F_ls)}
                     |-> [CustomerAdd |-> TRUE, Apps |-> {}]]]

LearnNext ==
    \/ \E c \in DOMAIN call :
          \/ \E rootPid \in {ContainerPid, ContainerPid + 1} :
                StartWatch_Acquire(c, rootPid, [Profile |-> LearnProfile, Rule |-> LearnRule],
                                   TRUE, FALSE, FALSE, TRUE)
          \/ StartWatch_Arm(c, ContainerFs)
          \/ StartWatch_Register(c)
          \/ StartWatch_Rules(c)
          \/ UpdateAccessRules_Fan(c)
    \/ /\ UNCHANGED delivered
       /\ \/ \E n \in 1..MaxProcs :
                FanNotify(ContainerFilePath(ContainerPid, <<"/", "bin", "/", "ls">>),
                          {"IN_ACCESS"}, Proc(n))
          \/ FanNotify(ContainerFilePath(ContainerPid + 1, <<"/", "bin", "/", "ls">>),
                       {"IN_ACCESS"}, Proc(1))
          \/ FanNotify(ContainerFilePath(ContainerPid, <<"/", "etc", "/", "hosts">>),
                       {"IN_ACCESS"}, Proc(1))
    \/ LoopNext({Exists(FALSE, HashErr)})

SpecLearn == Init /\ [][LearnNext]_vars

\* ----------------------------------------------------------- SpecStart:
\* the host, a container and the agent's own container are watched by one calling
\* goroutine, in any mode or none, with or without a rule, with or without the
\* capability to block, on AUFS or not
StartNext ==
    \/ \E c \in DOMAIN call :
          \/ \E rootPid \in {1, ContainerPid, ContainerPid + 1},
                mode \in {"", PolicyModeLearn, PolicyModeEvaluate, PolicyModeEnforce},
                rule \in {None, AccessRule({})}, capBlock \in BOOLEAN, aufs \in BOOLEAN :
                StartWatch_Acquire(c, rootPid, [Profile |-> Profile(mode), Rule |-> rule],
                                   capBlock, rootPid = ContainerPid + 1, aufs, TRUE)
          \/ StartWatch_Arm(c, ContainerFs)
          \/ StartWatch_Register(c)
          \/ StartWatch_Rules(c)
          \/ UpdateAccessRules_Fan(c)

SpecStart == Init /\ [][StartNext]_vars

\* ------------------------------------------------------------- SpecKey:
\* one container is watched in Learn mode with profiles of two different
\* customer-added filters drawn from KeyFilters, and with a rule that has an entry
\* under the key of each filter of the profile
KeyFilters ==
    {[F_bin EXCEPT !.Path = f[1], !.Regex = f[2]] :
        f \in {<< <<"/", "bin">>, <<".*">> >>,
               << <<"/", "bin">>, <<"ls">> >>,
               << <<"/", "bin">>, <<"ls", "/", ".*">> >>,
               << <<"/", "bin", "/", "ls">>, <<".*">> >>,
               << <<"/", "etc">>, <<".*">> >>}}

KeyNext ==
    \E c \in DOMAIN call :
        \/ \E f \in KeyFilters : \E g \in KeyFilters \ {f} :
              StartWatch_Acquire(c, ContainerPid,
                  [Profile |-> [Profile(PolicyModeLearn) EXCEPT !.Filters = <<f, g>>],
                   Rule |-> [Filters |-> [k \in {filterIndexKey(f), filterIndexKey(g)} |->
                                            [CustomerAdd |-> TRUE, Apps |-> {}]]]],
                  TRUE, FALSE, FALSE, TRUE)
        \/ StartWatch_Arm(c, ContainerFs)
        \/ StartWatch_Register(c)
        \/ StartWatch_Rules(c)
        \/ UpdateAccessRules_Fan(c)

SpecKey == Init /\ [][KeyNext]_vars

\* ------------------------------------------------------------ SpecWalk:
\* MaxCallers goroutines call StartWatch for two containers at the same time; a
\* walk may fail
WalkNext ==
    \E c \in DOMAIN call :
        \/ \E rootPid \in {ContainerPid, ContainerPid + 1}, pidValid \in BOOLEAN :
              StartWatch_Acquire(c, rootPid,
                                 [Profile |-> Profile(PolicyModeLearn), Rule |-> None],
                                 TRUE, FALSE, FALSE, pidValid)
        \/ \E res \in {ContainerFs, None} : StartWatch_Arm(c, res)
        \/ StartWatch_Register(c)

SpecWalk == InitWith(1..MaxCallers) /\ [][WalkNext]_vars

\* ================================================================ the claims
\* C1: in every reachable state, no process path is in both learn_rules[g][f] and
\* apply_rules[g][f], for every group g and filter key f.
C1_LearnApplyDisjoint ==
    \A p \in DOMAIN groups :
        \A k \in DOMAIN groups[p].learnRules \cap DOMAIN groups[p].applyRules :
            groups[p].learnRules[k] \cap groups[p].applyRules[k] = {}

\* C3: a report is only ever sent for a container whose group is registered: once
\* ContainerCleanup(rootPid, true) has deleted the group, no step of a flush that had
\* snapshotted the container's events sends a report for it.
C3_NoReportAfterCleanup ==
    \A i \in 1..Len(sent) :
        \E p \in DOMAIN groups : CidOf(p) = sent[i].ID

\* C5: every path held in fileEvents belongs to a container whose group is
\* registered, also while StartWatch is arming the marks and after a cleanup.
C5_EventsOfRegisteredGroups ==
    \A q \in DOMAIN fileEvents : PidOf(q) \in DOMAIN groups

\* C2: when ContainerCleanup(rootPid, true) returns, groups has no entry for
\* rootPid and fileEvents holds no path of that container; the call asked both
\* drivers to clean the container up before it took the mutex.
C2_CleanupLeave ==
    /\ [](returned.op = "ContainerCleanup" /\ returned.leave =>
            /\ returned.rootPid \notin DOMAIN groups
            /\ \A q \in DOMAIN fileEvents : PidOf(q) # returned.rootPid)
    /\ [][\A c \in DOMAIN call :
            call[c].pc # "cleanup" /\ call'[c].pc = "cleanup" =>
                  /\ call'[c].rootPid \notin DOMAIN fanotifier'.roots
                  /\ \A q \in DOMAIN fanotifier'.marks \cup DOMAIN inotifier'.marks :
                        PidOf(q) # call'[c].rootPid
         ]_vars
    /\ [][returned'.op = "ContainerCleanup" =>
            \E c \in DOMAIN call :
                call[c].pc = "cleanup" /\ call[c].rootPid = returned'.rootPid]_vars

\* C2 witness: ContainerCleanup(rootPid, true) has just returned for a container
\* that had been armed and had events in a flush, while the other group stays
C2_Witness ==
    /\ returned.op = "ContainerCleanup" /\ returned.leave
    /\ \E q \in DOMAIN finfos : finfos[q].ContainerId = CidOf(returned.rootPid)
    /\ \E q \in DOMAIN loop.events : PidOf(q) = returned.rootPid
    /\ DOMAIN groups # {}

\* C4: the step in which ContainerCleanup(rootPid, false) holds the mutex keeps the
\* group with its profile, mode and start time, empties its learn and apply rules,
\* and changes no other group and no pending event of another container.
C4_CleanupStay ==
    [][\A c \in DOMAIN call :
          (/\ call[c].pc = "cleanup" /\ call'[c].pc = "idle"
           /\ ~call[c].leave
           /\ call[c].rootPid \in DOMAIN groups) =>
             LET p == call[c].rootPid
             IN  /\ DOMAIN groups' = DOMAIN groups
                 /\ groups'[p].profile = groups[p].profile
                 /\ groups'[p].mode = groups[p].mode
                 /\ groups'[p].startAt = groups[p].startAt
                 /\ groups'[p].learnRules = <<>>
                 /\ groups'[p].applyRules = <<>>
                 /\ \A o \in DOMAIN groups \ {p} : groups'[o] = groups[o]
                 /\ \A q \in DOMAIN fileEvents :
                       PidOf(q) # p => q \in DOMAIN fileEvents' /\ fileEvents'[q] = fileEvents[q]
                 /\ \A q \in DOMAIN fileEvents' : q \in DOMAIN fileEvents
      ]_vars

\* C4 witness: ContainerCleanup(rootPid, false) has just returned, its group is
\* still registered with emptied rules, while another group holds apply and learned
\* rules and another container has pending events
C4_Witness ==
    /\ returned.op = "ContainerCleanup" /\ ~returned.leave
    /\ returned.rootPid \in DOMAIN groups
    /\ groups[returned.rootPid].applyRules = <<>>
    /\ \E o \in DOMAIN groups \ {returned.rootPid} :
          /\ groups[o].applyRules # <<>>
          /\ \E k \in DOMAIN groups[o].learnRules : groups[o].learnRules[k] # {}
    /\ \E q \in DOMAIN fileEvents : PidOf(q) # returned.rootPid

\* the callbacks of the current window that named path
DeliveredOn(path) == {i \in 1..Len(delivered) : delivered[i].path = path}

\* the callbacks of the current window that named path and a process
NamedOn(path) == {i \in DeliveredOn(path) : delivered[i].pInfo # None}

\* the first callback of the window that named path and the pid
FirstOf(path, pid) ==
    CHOOSE i \in NamedOn(path) :
        /\ delivered[i].pInfo.Pid = pid
        /\ \A j \in NamedOn(path) : delivered[j].pInfo.Pid = pid => i <= j

\* C6: between two flushes, the entry of a path in fileEvents carries the OR of the
\* masks of all callbacks delivered for it, and its process list holds each
\* delivered non-nil process once per pid, in the order of first arrival.
C6_MergedWindow ==
    /\ DOMAIN fileEvents = {delivered[i].path : i \in 1..Len(delivered)}
    /\ \A path \in DOMAIN fileEvents :
          LET fm == fileEvents[path]
          IN  /\ fm.mask = UNION {delivered[i].mask : i \in DeliveredOn(path)}
              /\ {fm.pInfo[n].Pid : n \in 1..Len(fm.pInfo)} =
                    {delivered[i].pInfo.Pid : i \in NamedOn(path)}
              /\ \A n \in 1..Len(fm.pInfo) :
                    fm.pInfo[n] = delivered[FirstOf(path, fm.pInfo[n].Pid)].pInfo
              /\ \A n, m \in 1..Len(fm.pInfo) :
                    n < m => FirstOf(path, fm.pInfo[n].Pid) < FirstOf(path, fm.pInfo[m].Pid)

\* C6 witness: three callbacks on one path with two masks, a repeated pid and a
\* second pid have been merged into one entry
C6_Witness ==
    /\ Len(delivered) = MaxDelivered
    /\ \E path \in DOMAIN fileEvents :
          /\ Cardinality(DeliveredOn(path)) >= 3
          /\ Cardinality(fileEvents[path].mask) >= 2
          /\ Len(fileEvents[path].pInfo) >= 1
          /\ Cardinality(NamedOn(path)) > Len(fileEvents[path].pInfo)

\* C7: the flush takes its snapshot and resets fileEvents in one step: the snapshot
\* is the whole map, which holds every callback delivered since the last snapshot,
\* the map is empty afterwards, a snapshot is only taken when the previous one has
\* been processed, its entries are processed one by one, and callbacks delivered
\* during a flush never reach the snapshot.
C7_AtomicSnapshot ==
    /\ [][loop'.events # loop.events =>
            \/ /\ loop.events = <<>>
               /\ loop'.events = fileEvents
               /\ fileEvents' = <<>>
               /\ \A i \in 1..Len(delivered) :
                     /\ delivered[i].path \in DOMAIN loop'.events
                     /\ delivered[i].mask \subseteq loop'.events[delivered[i].path].mask
            \/ /\ \E q \in DOMAIN loop.events : loop'.events = Without(loop.events, {q})
               /\ fileEvents' = fileEvents
         ]_vars
    /\ [][\A q \in DOMAIN fileEvents :
            q \notin DOMAIN fileEvents' => loop'.events = fileEvents /\ fileEvents' = <<>>
         ]_vars

\* C7 witness: a flush is processing a snapshot while the drivers have delivered a
\* new callback for a path of that snapshot
C7_Witness ==
    /\ loop.pc = "flush"
    /\ \E q \in DOMAIN loop.events : q \in DOMAIN fileEvents
    /\ delivered # <<>>

\* the flush is about to report or skip the event it has classified
Reporting == loop.pc = "report"

\* the step in which the flush reports or skips that event
ReportStep == Reporting /\ loop' # loop

\* what sendMsg hands to the report callback for the classified event
Reported ==
    sendMsg(CidOf(loop.cur.rootPid), loop.cur.path, loop.cur.event, loop.cur.fmod.pInfo,
            loop.cur.mode)

\* the entry came from a directory mark: its path was not armed itself
NotArmed == loop.cur.fmod.finfo # ContainerFilePath(loop.cur.rootPid, loop.cur.path)

\* the three files the container runtime writes at boot
RunTimeFiles ==
    {<<"/", "etc", "/", "hosts">>, <<"/", "etc", "/", "hostname">>,
     <<"/", "etc", "/", "resolv.conf">>}

\* a create and a delete, and no move or modify bit, merged for a path found absent
CreateThenDelete ==
    /\ Reporting
    /\ NotArmed
    /\ loop.cur.info = None
    /\ {"IN_CREATE", "IN_DELETE"} \subseteq loop.cur.fmod.mask
    /\ ~Has(loop.cur.fmod.mask, inodeMovedMask \cup {"IN_MODIFY", "IN_CLOSE_WRITE"})

C9_RunTimeFiles ==
    [][ReportStep /\ loop.cur.path \in RunTimeFiles =>
          IF loop.cur.event = "fileEventAccessed" \/ now - loop.cur.startAt < 60
          THEN sent' = <<>>
          ELSE sent' = Reported /\ sent' # <<>>
      ]_vars

\* C9 witness: an event on /etc/hosts touched by a process flagged Deny has just
\* been reported, 60 s after the group started
C9_Witness ==
    /\ sent # <<>>
    /\ \A i \in 1..Len(sent) : sent[i].Path = <<"/", "etc", "/", "hosts">>
    /\ \E i \in 1..Len(sent) : sent[i].Proc # None /\ sent[i].Proc.Deny
    /\ \E p \in DOMAIN groups : now - groups[p].startAt = graceSeconds

\* C10 as stated: a FileAccessed event is reported only in Enforce or Evaluate
\* mode, and every other event kind is reported in all three modes.
C10_ModeGate ==
    [][ReportStep =>
          IF loop.cur.event = "fileEventAccessed"
          THEN sent' # <<>> => loop.cur.mode \in {PolicyModeEnforce, PolicyModeEvaluate}
          ELSE sent' # <<>>
      ]_vars

\* the process paths an event adds to learn_rules: those of its processes that
\* the rule of a matching customer-added filter does not yet allow
Learnt(grp, path, pInfo) ==
    {<<filterIndexKey(grp.profile.Filters[n]), pInfo[i].Path>> :
        n \in {m \in 1..Len(grp.profile.Filters) :
                  /\ grp.profile.Filters[m].CustomerAdd
                  /\ filterPathMatch(path, grp.profile.Filters[m])
                  /\ filterIndexKey(grp.profile.Filters[m]) \in DOMAIN grp.applyRules},
        i \in {j \in 1..Len(pInfo) :
                  \A m \in 1..Len(grp.profile.Filters) :
                      filterIndexKey(grp.profile.Filters[m]) \in DOMAIN grp.applyRules =>
                          pInfo[j].Path \notin
                              grp.applyRules[filterIndexKey(grp.profile.Filters[m])]}}

\* C10 amended: a FileAccessed event is reported only in Enforce or Evaluate mode;
\* in Learn mode it sends no report, and the step that classified it has added its
\* processes to the learned rules. Every other event kind is reported in all three
\* modes, unless it is on a runtime-added file whose group started less than 60 s
\* ago; a FileAccessed event in Enforce or Evaluate mode is reported unless it is
\* on a runtime-added file.
C10_ModeGateButRunTime ==
    /\ [][ReportStep =>
            IF loop.cur.event = "fileEventAccessed"
            THEN IF loop.cur.mode \in {PolicyModeEnforce, PolicyModeEvaluate}
                    /\ loop.cur.path \notin RunTimeFiles
                 THEN sent' = Reported /\ sent' # <<>>
                 ELSE sent' = <<>>
            ELSE IF loop.cur.path \in RunTimeFiles /\ now - loop.cur.startAt < 60
                 THEN sent' = <<>>
                 ELSE sent' = Reported /\ sent' # <<>>
         ]_vars
    /\ [][loop.pc = "flush" /\ loop'.pc = "report"
            /\ loop'.cur.event = "fileEventAccessed"
            /\ loop'.cur.mode = PolicyModeLearn =>
              \A t \in Learnt(groups[loop'.cur.rootPid], loop'.cur.path,
                              loop'.cur.fmod.pInfo) :
                  /\ t[1] \in DOMAIN groups'[loop'.cur.rootPid].learnRules
                  /\ t[2] \in groups'[loop'.cur.rootPid].learnRules[t[1]]
         ]_vars

\* C10 witness: in Learn mode a FileAccessed event of a process has been
\* classified, its process is in the learned rules, and it is about to be skipped
C10_Witness ==
    /\ Reporting
    /\ loop.cur.event = "fileEventAccessed"
    /\ loop.cur.mode = PolicyModeLearn
    /\ loop.cur.fmod.pInfo # <<>>
    /\ \E k \in DOMAIN groups[loop.cur.rootPid].learnRules :
          loop.cur.fmod.pInfo[1].Path \in groups[loop.cur.rootPid].learnRules[k]

\* group p holds, after the step, a learned path under key k that it did not
\* hold before
Gained(p, k) ==
    /\ p \in DOMAIN groups'
    /\ k \in DOMAIN groups'[p].learnRules
    /\ \/ p \notin DOMAIN groups
       \/ k \notin DOMAIN groups[p].learnRules
       \/ groups'[p].learnRules[k] \ groups[p].learnRules[k] # {}

\* the step processes, under the mutex, a flushed event of group p
Processes(p) ==
    /\ loop.pc = "flush"
    /\ loop'.pc = "report"
    /\ loop'.cur.rootPid = p

\* C11: learn_rules of a group gains an entry only in the step that processes a
\* flushed event of that group while the group's mode is Learn and the event
\* carries a non-empty process list; in Evaluate and Enforce mode, and for events
\* without process information, nothing is added.
C11_LearnOnlyInLearnFlush ==
    [][\A p \in DOMAIN groups' : \A k \in DOMAIN groups'[p].learnRules :
          Gained(p, k) =>
              /\ Processes(p)
              /\ groups[p].mode = PolicyModeLearn
              /\ Len(loop'.cur.fmod.pInfo) > 0
      ]_vars

\* C11 witness: an event with a process has been processed for a group in Learn
\* mode whose rule did not allow the process, and the group has learned it
C11_Witness ==
    /\ Reporting
    /\ groups[loop.cur.rootPid].mode = PolicyModeLearn
    /\ Len(loop.cur.fmod.pInfo) > 0
    /\ \E k \in DOMAIN groups[loop.cur.rootPid].learnRules :
          /\ groups[loop.cur.rootPid].learnRules[k] # {}
          /\ groups[loop.cur.rootPid].learnRules[k] \cap
                groups[loop.cur.rootPid].applyRules[k] = {}

\* the keys of the customer-added filters of grp, of Filters and of FiltersCRD,
\* whose match accepts path
LearningKeys(grp, path) ==
    {filterIndexKey(f) : f \in {g \in Range(grp.profile.Filters \o grp.profile.FiltersCRD) :
                                   g.CustomerAdd /\ filterPathMatch(path, g)}}

\* the paths held under key k of a rule map, none when the map has no such key
Held(rules, k) == IF k \in DOMAIN rules THEN rules[k] ELSE {}

\* C12 as stated: in Learn mode, when an event with process information is
\* processed, every process with a non-empty path that apply_rules does not hold
\* under the key of a matching customer-added filter is in learn_rules under that
\* key afterwards, whether or not apply_rules has an entry for the key.
C12_LearnsUnlessApplied ==
    [][\A p \in DOMAIN groups :
          Processes(p) /\ groups[p].mode = PolicyModeLearn
                       /\ Len(loop'.cur.fmod.pInfo) > 0 =>
              \A k \in LearningKeys(groups[p], loop'.cur.path) :
                  LearnablePaths(loop'.cur.fmod.pInfo) \ Held(groups[p].applyRules, k)
                      \subseteq Held(groups'[p].learnRules, k)
      ]_vars

\* C12 amended: the same, for the keys that have an entry in apply_rules; under
\* a key without an entry in apply_rules the event adds nothing.
C12_LearnsUnderAppliedKeys ==
    [][\A p \in DOMAIN groups :
          Processes(p) /\ groups[p].mode = PolicyModeLearn
                       /\ Len(loop'.cur.fmod.pInfo) > 0 =>
              \A k \in LearningKeys(groups[p], loop'.cur.path) :
                  IF k \in DOMAIN groups[p].applyRules
                  THEN LearnablePaths(loop'.cur.fmod.pInfo) \ groups[p].applyRules[k]
                           \subseteq Held(groups'[p].learnRules, k)
                  ELSE Held(groups'[p].learnRules, k) = Held(groups[p].learnRules, k)
      ]_vars

\* C12 witness: in Learn mode an event of a process has been processed under a
\* matching customer-added filter whose key has an entry in apply_rules that
\* allows no application, and the process is learned under that key
C12_Witness ==
    /\ Reporting
    /\ loop.cur.mode = PolicyModeLearn
    /\ \E k \in LearningKeys(groups[loop.cur.rootPid], loop.cur.path) :
          /\ k \in DOMAIN groups[loop.cur.rootPid].applyRules
          /\ groups[loop.cur.rootPid].applyRules[k] = {}
          /\ LearnablePaths(loop.cur.fmod.pInfo) # {}
          /\ LearnablePaths(loop.cur.fmod.pInfo) \subseteq
                Held(groups[loop.cur.rootPid].learnRules, k)

\* C13: for every group in Learn mode and every filter of its profile, in Filters
\* or in FiltersCRD, that is not customer-added, no step creates or extends
\* learn_rules under the key of that filter.
C13_NoLearningForOtherFilters ==
    [][\A p \in DOMAIN groups :
          groups[p].mode = PolicyModeLearn =>
              \A f \in Range(groups[p].profile.Filters \o groups[p].profile.FiltersCRD) :
                  ~f.CustomerAdd => ~Gained(p, filterIndexKey(f))
      ]_vars

\* C13 witness: in Learn mode an event of a process on a file matched by a filter
\* that is not customer-added has been processed; the access rule has an entry
\* under the filter's key that does not allow the process, and learn_rules has none
C13_Witness ==
    /\ Reporting
    /\ loop.cur.mode = PolicyModeLearn
    /\ LearnablePaths(loop.cur.fmod.pInfo) # {}
    /\ \E f \in Range(groups[loop.cur.rootPid].profile.Filters
                      \o groups[loop.cur.rootPid].profile.FiltersCRD) :
          /\ ~f.CustomerAdd
          /\ filterPathMatch(loop.cur.path, f)
          /\ filterIndexKey(f) \in DOMAIN groups[loop.cur.rootPid].applyRules
          /\ groups[loop.cur.rootPid].applyRules[filterIndexKey(f)] = {}
          /\ filterIndexKey(f) \notin DOMAIN groups[loop.cur.rootPid].learnRules

\* the registry entries that hold triple t = (group name, filter key, process path)
\* in their learn_rules
Holders(t) ==
    {p \in DOMAIN groups : /\ groups[p].profile.Group = t[1]
                           /\ t[2] \in DOMAIN groups[p].learnRules
                           /\ t[3] \in groups[p].learnRules[t[2]]}

\* the triples some registry entry holds
HeldTriples ==
    UNION {UNION {{<<groups[p].profile.Group, k, x>> : x \in groups[p].learnRules[k]} :
                     k \in DOMAIN groups[p].learnRules} : p \in DOMAIN groups}

\* C14: a learning tick empties learn_rules of every group and hands the rule
\* callback one batch that holds, for every (group, filter key, process path) in
\* the learn_rules of a registry entry at the tick, exactly one triple, and no
\* other triple; a path learned from repeated accesses is held once; the callback
\* is only invoked with a batch that is not empty.
C14_LearnTick ==
    /\ [][loop.pc = "idle" /\ HeldTriples # {} /\ loop'.batch # loop.batch =>
            /\ \A p \in DOMAIN groups' : groups'[p].learnRules = <<>>
            /\ DOMAIN loop'.batch = HeldTriples
            /\ \A t \in HeldTriples : loop'.batch[t] = Cardinality(Holders(t))
            /\ loop'.pc = "sendRule"
         ]_vars
    /\ [][loop.pc = "sendRule" /\ loop' # loop => sentRules' = loop.batch]_vars
    /\ [][DOMAIN sentRules' # {} => loop.pc = "sendRule" /\ loop'.pc = "idle"]_vars
    /\ [][loop'.pc = "sendRule" => DOMAIN loop'.batch # {}]_vars

\* C14 witness: the rule callback has just been given a batch in which the path
\* both containers of the service learned under one key comes once per container,
\* and no registry entry holds a learned path any more
C14_Witness ==
    /\ DOMAIN sentRules # {}
    /\ \E t \in DOMAIN sentRules : sentRules[t] = 2
    /\ Cardinality(DOMAIN groups) = 2
    /\ HeldTriples = {}

\* C15: when the rule callback returns an error, the triples of the batch are not
\* put back: the failed call leaves learn_rules of every group empty and the
\* loop holds no batch any more, so a triple of the failed batch is in the next
\* tick's batch only if an event flushed after the failure learns it again.
C15_NoRequeue ==
    /\ [][ruleErr' =>
            /\ loop.pc = "sendRule"
            /\ sentRules' = loop.batch
            /\ groups' = groups
            /\ HeldTriples' = {}
            /\ loop' = IdleLoop
         ]_vars
    /\ [][\A p \in DOMAIN groups' : \A k \in DOMAIN groups'[p].learnRules :
            Gained(p, k) => Processes(p) /\ ~ruleErr'
         ]_vars

\* C15 witness: the rule callback was given a batch and returned an error
C15_Witness ==
    /\ ruleErr
    /\ DOMAIN sentRules # {}
    /\ \A p \in DOMAIN groups : groups[p].learnRules = <<>>

\* an earlier StartWatch with the arguments of the call in progress a has been
\* completed: the root is registered and started as a asks, and a's rule is applied
WatchedAs(a) ==
    /\ a.rootPid \in DOMAIN groups
    /\ a.rootPid \in DOMAIN fanotifier.roots
    /\ fanotifier.roots[a.rootPid].rule = a.rule
    /\ groups[a.rootPid].applyRules = AppliedRules(a.rule)
    /\ \/ a.pc = "fanRule"
       \/ /\ groups[a.rootPid].profile = a.profile
          /\ fanotifier.roots[a.rootPid] =
                [access |-> a.access, perm |-> a.perm, capBlock |-> a.capBlock,
                 isNV |-> a.isNV, started |-> TRUE, rule |-> a.rule]

\* C16: a StartWatch that follows a StartWatch for the same root pid with the same
\* profile, rule, capBlock and isNV requests the driver marks that are already
\* set, and leaves the group's registry entry (profile, mode, apply_rules,
\* learn_rules, start_at) and the root's monitor settings as the first call left
\* them: none of its steps changes them.
C16_SecondStartWatch ==
    [][\A c \in DOMAIN call :
          call[c].op = "StartWatch" /\ call'[c] # call[c] /\ WatchedAs(call[c]) =>
              /\ groups' = groups
              /\ fanotifier' = fanotifier
              /\ inotifier' = inotifier
      ]_vars

\* C16 witness: the second of two equal StartWatch calls has armed the targets and
\* registered the group, which has learned a path since the first call, and is
\* about to apply its rule
C16_Witness ==
    \E c \in DOMAIN call :
        /\ call[c].op = "StartWatch"
        /\ call[c].pc = "rules"
        /\ WatchedAs(call[c])
        /\ groups[call[c].rootPid].learnRules # <<>>
        /\ fanotifier.marks # <<>>

\* C17: StartWatch sets an unset profile mode to Learn; the perm flag it hands to
\* the fanotify driver is true exactly when the mode is Enforce, the file system
\* is not AUFS and capBlock is true; the access flag is true exactly when the root
\* pid is not 1, the container is not the agent's own and the mode is Learn; the
\* two flags are never both true; the group is registered with that mode.
C17_ModeFlags ==
    [][\A c \in DOMAIN call :
          LET a == call[c]
              mode == IF a.mode = "" THEN PolicyModeLearn ELSE a.mode
          IN  /\ a.pc = "walk" /\ call'[c].pc = "register" =>
                    LET r == fanotifier'.roots[a.rootPid]
                    IN  /\ a.profile.Mode = mode
                        /\ r.perm = (mode = PolicyModeEnforce /\ ~a.aufs /\ a.capBlock)
                        /\ r.access = (a.rootPid # 1 /\ ~a.isNV /\ mode = PolicyModeLearn)
                        /\ ~(r.perm /\ r.access)
              /\ a.pc = "register" /\ call'[c].pc # "register" =>
                    /\ groups'[a.rootPid].mode = mode
                    /\ groups'[a.rootPid].profile.Mode = mode
      ]_vars

\* C17 witness: the host is being watched by a call that named no mode; the mode
\* of the call is Learn and the driver was asked for neither open events nor
\* permission events, while a container watched in Enforce mode has perm set
C17_Witness ==
    \E c \in DOMAIN call :
        /\ call[c].pc = "register"
        /\ call[c].rootPid = 1
        /\ call[c].mode = ""
        /\ call[c].profile.Mode = PolicyModeLearn
        /\ ~fanotifier.roots[1].access
        /\ ~fanotifier.roots[1].perm
        /\ ContainerPid \in DOMAIN fanotifier.roots
        /\ fanotifier.roots[ContainerPid].perm
        /\ ~fanotifier.roots[ContainerPid].access

\* C18: in every reachable state the host group (root pid 1) and every group of
\* the agent's own container have empty apply_rules and learn_rules, and no
\* access rule has been forwarded to the fanotify driver for them.
C18_HostAndAgentWithoutRules ==
    \A p \in DOMAIN groups :
        p = 1 \/ groups[p].bNeuvector =>
            /\ groups[p].applyRules = <<>>
            /\ groups[p].learnRules = <<>>
            /\ p \in DOMAIN fanotifier.roots => fanotifier.roots[p].rule = None

\* C19: the filter key "<path>/<regex>" maps any two filters of one profile that
\* differ in path or in regex to different keys.
C19_KeysInjective ==
    \A p \in DOMAIN groups :
        \A f, g \in Range(groups[p].profile.Filters \o groups[p].profile.FiltersCRD) :
            f.Path # g.Path \/ f.Regex # g.Regex => filterIndexKey(f) # filterIndexKey(g)

\* the goroutines whose walker request is in progress, between Acquire and Release
Walking == {c \in DOMAIN call : call[c].pc = "walk"}

\* C20: however many goroutines call StartWatch at the same time, at most two
\* walker requests are in progress, and a permit is held exactly by the requests
\* in progress: it is given back when the walk returns, succeeded or failed.
C20_WalkerLimit ==
    /\ Cardinality(Walking) <= 2
    /\ walkerLimiter = Cardinality(Walking)

\* C20 witness: two walks are in progress and hold both permits while a third
\* goroutine, whose walk failed and armed nothing, has its permit given back
C20_Witness ==
    /\ Cardinality(Walking) = 2
    /\ walkerLimiter = 2
    /\ \E c \in DOMAIN call : call[c].pc = "register"
    /\ fanotifier.marks = <<>>

\* C21: when the walk of a container fails, StartWatch goes on with an empty
\* enumeration: it arms no file or directory target, and still sets the driver
\* mode and starts the monitor of the root, registers the group with the given
\* profile and mode, and applies the access rule.
C21_FailedWalk ==
    [][\A c \in DOMAIN call :
          LET a == call[c]
              b == call'[c]
          IN  /\ a.pc = "walk" /\ b.pc = "register" /\ ~b.walked =>
                    /\ fanotifier'.marks = fanotifier.marks
                    /\ inotifier' = inotifier
                    /\ finfos' = finfos
                    /\ a.rootPid \in DOMAIN fanotifier'.roots
                    /\ fanotifier'.roots[a.rootPid].started
                    /\ fanotifier'.roots[a.rootPid].access = a.access
                    /\ fanotifier'.roots[a.rootPid].perm = a.perm
                    /\ fanotifier'.roots[a.rootPid].capBlock = a.capBlock
                    /\ fanotifier'.roots[a.rootPid].isNV = a.isNV
              /\ a.pc = "register" /\ ~a.walked /\ b # a =>
                    /\ a.rootPid \in DOMAIN groups'
                    /\ groups'[a.rootPid].profile = a.profile
                    /\ groups'[a.rootPid].mode = a.profile.Mode
                    /\ a.rule # None /\ ~a.isNV /\ a.rootPid # 1 => b.pc = "rules"
              /\ a.pc = "rules" /\ ~a.walked /\ b # a /\ a.rootPid \in DOMAIN groups =>
                    /\ groups'[a.rootPid].applyRules = AppliedRules(a.rule)
                    /\ b.pc = "fanRule"
                    /\ b.rule = a.rule
      ]_vars

\* C21 witness: the first StartWatch of a container, whose walk failed, has set
\* the mode, started the monitor and registered the group in the given mode, and
\* is about to apply its rule; nothing is armed
C21_Witness ==
    \E c \in DOMAIN call :
        /\ call[c].op = "StartWatch"
        /\ call[c].pc = "rules"
        /\ ~call[c].walked
        /\ fanotifier.marks = <<>>
        /\ inotifier.marks = <<>>
        /\ fanotifier.roots[call[c].rootPid].started
        /\ groups[call[c].rootPid].mode = call[c].profile.Mode
        /\ groups[call[c].rootPid].applyRules = <<>>


\* ------------------------------------------------------------ SpecLock:
\* Spec's container, goroutine, loop and drivers, with the process alert and the
\* probe added and the use of the mutex traced
LockNext ==
    \/ \E c \in DOMAIN call :
          CallerNext(c, SpecPids, SpecModes, {None, AccessRule({})},
                     {ContainerFs})
    \/ \E c \in DOMAIN call :
          \/ SendNVProcessAlert_Lock(c, ContainerPid, Proc(1).Pid, CidOf(ContainerPid),
                                     Proc(1).Path, "/bin/sh")
          \/ SendNVProcessAlert_Send(c)
          \/ GetProbeData_Lock(c)
          \/ GetProbeData_Drivers(c)
    \/ LoopNext({Exists(FALSE, HashErr)})
    \/ DriverNext

SpecLock == InitTraced({1}, "unlocked") /\ [][LockNext]_vars

\* C22: a step that hands a report to the report callback (with the group
\* estimation made for it) or a batch to the rule callback runs no section under
\* the FileWatch mutex and leaves the groups and the pending events as they were,
\* whether it is a flush, a learn tick or a process alert; so the sections that
\* cbNotify, StartWatch, UpdateAccessRules and ContainerCleanup wait for never
\* contain a callback
C22_CallbacksOutsideMutex ==
    [][sent' # <<>> \/ DOMAIN sentRules' # {} =>
          /\ locked' = "unlocked"
          /\ groups' = groups
          /\ fileEvents' = fileEvents]_vars

\* a process alert was reported while an event was pending
C22_Witness ==
    /\ locked = "unlocked"
    /\ Len(sent) = 1
    /\ sent[1].Msg = fsNvProtectProcAlert
    /\ DOMAIN fileEvents # {}


\* C23: a step that changes the groups map, a group's learned or applied rules or
\* the pending events map runs under the FileWatch mutex, and so does every step
\* that reads them: the snapshot of the flush, the collection of the learn tick,
\* the group lookup of the process alert and the counting of the probe
C23_MapsUnderMutex ==
    [][/\ groups' # groups \/ fileEvents' # fileEvents => locked' = "locked"
       /\ loop.pc = "idle" /\ loop'.pc \in {"flush", "sendRule"} => locked' = "locked"
       /\ returned'.op = "SendNVProcessAlert" /\ sent' = <<>> => locked' = "locked"
       /\ \A c \in DOMAIN call :
             call[c].pc = "idle" /\ call'[c].pc \in {"alert", "probe", "fanRule"} =>
                /\ locked' = "locked"
                /\ call'[c].pc = "alert" =>
                      /\ call'[c].rootPid \in DOMAIN groups
                      /\ call'[c].profile = groups[call'[c].rootPid].profile
                /\ call'[c].pc = "probe" =>
                      /\ call'[c].local.NGroups = Cardinality(DOMAIN groups)
                      /\ call'[c].local.NFileEvents = Cardinality(DOMAIN fileEvents)]_vars

\* the probe counted a registered group and a pending event under the mutex
C23_Witness ==
    /\ locked = "locked"
    /\ \E c \in DOMAIN call :
          /\ call[c].pc = "probe"
          /\ call[c].local.NGroups = 1
          /\ call[c].local.NFileEvents = 1


\* ------------------------------------------------------------ SpecSend:
\* learnFromEvents is about to report one classified event of a monitored file in
\* an Evaluate-mode group; the process list is any list of at most MaxDelivered
\* processes, equal neighbours included
SendStart ==
    /\ groups = <<>>
    /\ fileEvents = <<>>
    /\ finfos = (AggFile :> [FileInfoExt(AggFile, FALSE, F_bin) EXCEPT
                                !.ContainerId = CidOf(ContainerPid)])
    /\ fanotifier = [marks |-> <<>>, roots |-> <<>>]
    /\ inotifier = [marks |-> <<>>]
    /\ walkerLimiter = 0
    /\ call = [c \in {1} |-> IdleCall]
    /\ \E n \in 0..MaxDelivered,
          event \in {"fileEventModified", "fileEventAccessed", "fileEventAttr",
                     "fileEventRemoved"} :
          \E pInfo \in [1..n -> AggProcs] :
             loop = [IdleLoop EXCEPT
                        !.pc = "report",
                        !.cur = [rootPid |-> ContainerPid,
                                 fmod |-> [mask |-> {"IN_MODIFY"}, finfo |-> AggFile,
                                           pInfo |-> pInfo],
                                 path |-> <<"/", "bin", "/", "ls">>,
                                 info |-> Exists(FALSE, "1").info,
                                 event |-> event, mode |-> PolicyModeEvaluate,
                                 startAt |-> 0]]
    /\ sent = <<>>
    /\ sentRules = <<>>
    /\ ruleErr = FALSE
    /\ locked = ""
    /\ returned = NoCall
    /\ now = 0
    /\ delivered = <<>>

SendNext == Flush_Report

SpecSend == SendStart /\ [][SendNext]_vars

\* the indices of a process list that sendMsg reports
Kept(pInfo) == {i \in 1..Len(pInfo) : i = 1 \/ pInfo[i] # pInfo[i - 1]}

\* C24: when learnFromEvents hands an event to sendMsg, the reports name, in order,
\* the process at index 0 and every later process that differs from its
\* predecessor as a whole record, and none that equals its predecessor; an empty
\* process list gives exactly one report, which names no process
C24_OneReportPerRun ==
    [][ReportStep /\ ShouldReport(loop.cur.path, loop.cur.event, loop.cur.mode,
                                  now - loop.cur.startAt) =>
          LET pInfo == loop.cur.fmod.pInfo
          IN  IF pInfo = <<>>
              THEN Len(sent') = 1 /\ sent'[1].Proc = None
              ELSE /\ Len(sent') = Cardinality(Kept(pInfo))
                   /\ \A i \in Kept(pInfo) :
                         sent'[Cardinality({k \in Kept(pInfo) : k <= i})].Proc = pInfo[i]]_vars

\* two reports went out for one pid, whose two records differ in the verdict
C24_Witness ==
    /\ loop.pc = "idle"
    /\ Len(sent) = 2
    /\ sent[1].Proc = Proc(1)
    /\ sent[2].Proc = [Proc(1) EXCEPT !.Deny = TRUE]


\* C25: of the reports sendMsg makes for a classified event, the one for a process
\* with the Deny flag has action Deny and the message of a denied access whatever
\* the kind of the event, and every other one has action Violate and the message
\* of the classified kind
C25_DenyOverridesKind ==
    [][ReportStep =>
          \A j \in 1..Len(sent') :
             IF sent'[j].Proc # None /\ sent'[j].Proc.Deny
             THEN /\ sent'[j].Action = PolicyActionDeny
                  /\ sent'[j].Msg = "File access was denied."
             ELSE /\ sent'[j].Action = PolicyActionViolate
                  /\ sent'[j].Msg = fileEventMsg(loop.cur.event)]_vars

\* a modification was reported for two processes, one of them denied
C25_Witness ==
    /\ loop.pc = "idle"
    /\ Len(sent) = 2
    /\ sent[1].Proc.Deny /\ sent[1].Action = PolicyActionDeny
    /\ sent[1].Msg = "File access was denied."
    /\ ~sent[2].Proc.Deny /\ sent[2].Action = PolicyActionViolate
    /\ sent[2].Msg = "File was modified."


\* ------------------------------------------------------------ SpecKind:
\* HandleWatchedFiles has snapshotted one pending event of a container watched in
\* Evaluate mode for a grace period, and has read the path's state (loop.cur holds
\* what Lstat, Readlink and GetFileHash return); the event is on the single-file
\* target /etc/hosts, on the directory target /bin or on a file below it, the
\* merged mask is any non-empty set of the bits the drivers deliver, and the hash
\* stored at the target is zero or that of an earlier read
KindStart ==
    LET KindBits ==
            {"IN_MOVED_TO", "IN_MOVED_FROM", "IN_MOVE_SELF", "IN_CREATE", "IN_DELETE",
             "IN_ATTRIB", "IN_ACCESS", "IN_MODIFY", "IN_CLOSE_WRITE", "IN_ISDIR"}
        KindObs ==
            {Exists(isDir, hash) : isDir \in BOOLEAN, hash \in {"1", "2", HashErr}}
            \cup {[Exists(FALSE, "1") EXCEPT !.info.IsSymlink = TRUE, !.linkIsDir = l] :
                     l \in BOOLEAN}
            \cup {Absent}
        prof == Profile(PolicyModeEvaluate)
        flags == ModeFlags(ContainerPid, PolicyModeEvaluate, FALSE, TRUE, FALSE)
        adds == addCoreFile(TRUE, CidOf(ContainerPid),
                            getCoreFile(ContainerPid, prof, ContainerFs))
        d == ApplyOps(Drivers([marks |-> <<>>,
                               roots |-> (ContainerPid :>
                                            [access |-> flags.access, perm |-> flags.perm,
                                             capBlock |-> TRUE, isNV |-> FALSE,
                                             started |-> TRUE, rule |-> None])],
                              [marks |-> <<>>]),
                      [i \in 1..Len(adds) |-> adds[i].op])
        bin == ContainerFilePath(ContainerPid, <<"/", "bin">>)
    IN  /\ groups = (ContainerPid :> [bNeuvector |-> FALSE, profile |-> prof,
                                      mode |-> PolicyModeEvaluate, applyRules |-> <<>>,
                                      learnRules |-> <<>>, startAt |-> 0])
        /\ fileEvents = <<>>
        /\ \E hash \in {"0", "1"} :
              finfos = [p \in DOMAIN Objects(adds) |-> [Objects(adds)[p] EXCEPT !.Hash = hash]]
        /\ fanotifier = d.fan
        /\ inotifier = d.ino
        /\ walkerLimiter = 0
        /\ call = [c \in {1} |-> IdleCall]
        /\ \E mask \in SUBSET KindBits \ {{}}, obs \in KindObs,
              at \in {<<AggHosts, AggHosts>>, <<AggFile, bin>>, <<bin, bin>>} :
              loop = [IdleLoop EXCEPT
                         !.pc = "flush",
                         !.events = (at[1] :> [mask |-> mask, finfo |-> at[2],
                                               pInfo |-> <<Proc(1)>>]),
                         !.cur = obs]
        /\ sent = <<>>
        /\ sentRules = <<>>
        /\ ruleErr = FALSE
        /\ locked = ""
        /\ returned = NoCall
        /\ now = graceSeconds
        /\ delivered = <<>>

KindNext ==
    \/ \E fullPath \in DOMAIN loop.events : Flush_Event(fullPath, TRUE, loop.cur)
    \/ Flush_Report

SpecKind == KindStart /\ [][KindNext]_vars


\* the step in which the flush classifies a snapshotted event
FlushStep == loop.pc = "flush" /\ loop' # loop

\* the kind the classifier gave to the event now to be reported, if any
Classified == IF loop.pc = "report" THEN loop.cur.event ELSE ""

\* the one event of the snapshot: its path, its merged mask and its target
Pending == CHOOSE p \in DOMAIN loop.events : TRUE
PendingMask == loop.events[Pending].mask
PendingTarget == finfos[loop.events[Pending].finfo]

\* the event goes to handleDirEvents, to handleFileEvents otherwise
ViaDir == PendingTarget.IsDir \/ (loop.cur.info # None /\ loop.cur.info.IsDir)

\* C27: an event that goes to handleDirEvents and whose path exists at the flush
\* gets its kind from the first rule that matches the merged mask: IN_MOVED_TO, a
\* move-to of a directory or file; else IN_CREATE, a created directory, symlink
\* (to a directory or not) or file; else IN_ATTRIB, an attribute change of a
\* directory or file; else an access or modify bit, Accessed or Modified; a mask
\* with none of these bits gives no event, and nothing is left to report
C27_DirPrecedence ==
    [][FlushStep /\ ViaDir /\ loop.cur.info # None =>
          LET isDir == loop.cur.info.IsDir
          IN  IF "IN_MOVED_TO" \in PendingMask
              THEN Classified' = IF isDir THEN "fileEventDirMovedTo" ELSE "fileEventMovedTo"
              ELSE IF "IN_CREATE" \in PendingMask
              THEN Classified' = IF isDir THEN "fileEventDirCreate"
                                 ELSE IF loop.cur.info.IsSymlink
                                 THEN (IF loop.cur.linkIsDir THEN "fileEventDirSymCreate"
                                       ELSE "fileEventSymCreate")
                                 ELSE "fileEventCreate"
              ELSE IF "IN_ATTRIB" \in PendingMask
              THEN Classified' = IF isDir THEN "fileEventDirAttr" ELSE "fileEventAttr"
              ELSE IF Has(PendingMask, {"IN_ACCESS", "IN_MODIFY", "IN_CLOSE_WRITE"})
              THEN Classified' \in {"fileEventAccessed", "fileEventModified"}
              ELSE loop'.pc = "idle" /\ sent' = <<>>]_vars

\* an attribute change of a file below the watched directory was classified from a
\* window that also held a modification
C27_Witness ==
    /\ Classified = "fileEventAttr"
    /\ finfos[loop.cur.fmod.finfo].IsDir
    /\ {"IN_ATTRIB", "IN_MODIFY"} \subseteq loop.cur.fmod.mask
    /\ ~Has(loop.cur.fmod.mask, {"IN_MOVED_TO", "IN_CREATE"})


\* the calls the classification of the pending event makes on the drivers
PendingOps ==
    Range(Classify(loop.events[Pending], PendingTarget, loop.cur, Pending,
                   ParseContainerFilePath(Pending).path).ops)

\* the step released the watch of the pending path: the handler called removeFile,
\* and no driver holds a mark of the path afterwards
Releases ==
    /\ OpRemoveFile(Pending) \in PendingOps
    /\ Pending \notin DOMAIN fanotifier'.marks \cup DOMAIN inotifier'.marks

\* the step called neither driver
KeepsWatches == PendingOps = {} /\ UNCHANGED <<fanotifier, inotifier>>

\* C28 as stated: for an event whose path is absent at the flush, both handlers
\* give MovedFrom (of a file or directory) when the merged mask has a bit of
\* inodeMovedMask and Removed (of a file or directory) otherwise, and the watch of
\* the path is released exactly when the result is Removed
C28_AbsentPath ==
    [][FlushStep /\ loop.cur.info = None =>
          /\ Classified' \in IF Has(PendingMask, inodeMovedMask)
                             THEN {"fileEventMovedFrom", "fileEventDirMovedFrom"}
                             ELSE {"fileEventRemoved", "fileEventDirRemoved"}
          /\ Releases <=> Classified' \in {"fileEventRemoved", "fileEventDirRemoved"}]_vars

\* C28, amended: for an event whose path is absent at the flush, handleFileEvents
\* gives MovedFrom and keeps the watch when the merged mask has a bit of
\* inodeMovedMask, and gives Removed and releases the watch otherwise;
\* handleDirEvents gives DirRemoved whatever the mask and keeps the watch when the
\* path is the directory target itself, and for a path below the target gives
\* MovedFrom (DirMovedFrom with IN_ISDIR) when the mask has a bit of
\* inodeMovedMask and Removed otherwise, releasing the watch in both cases
C28_AbsentPathByHandler ==
    [][FlushStep /\ loop.cur.info = None =>
          IF ~ViaDir
          THEN IF Has(PendingMask, inodeMovedMask)
               THEN Classified' = "fileEventMovedFrom" /\ KeepsWatches
               ELSE Classified' = "fileEventRemoved" /\ Releases
          ELSE IF Pending = PendingTarget.Path
          THEN Classified' = "fileEventDirRemoved" /\ KeepsWatches
          ELSE /\ Classified' = IF Has(PendingMask, inodeMovedMask)
                                THEN (IF "IN_ISDIR" \in PendingMask
                                      THEN "fileEventDirMovedFrom"
                                      ELSE "fileEventMovedFrom")
                                ELSE "fileEventRemoved"
               /\ Releases]_vars

\* the watched directory itself was moved away: the flush found it absent, gave
\* DirRemoved and left its marks in both drivers
C28_Witness ==
    /\ Classified = "fileEventDirRemoved"
    /\ loop.cur.info = None
    /\ "IN_MOVE_SELF" \in loop.cur.fmod.mask
    /\ loop.cur.fmod.finfo \in DOMAIN fanotifier.marks \cap DOMAIN inotifier.marks
    /\ ParseContainerFilePath(loop.cur.fmod.finfo).path = loop.cur.path


\* C29 as stated: for an existing regular file whose hash can be read, with no
\* move, create or attribute bit in the merged mask and an access or modify bit
\* set, the kind is Modified exactly when the hash read at the flush differs from
\* a stored non-zero hash, or the stored hash is zero and the mask has IN_MODIFY
\* or IN_CLOSE_WRITE, and Accessed otherwise, in handleFileEvents and in
\* handleDirEvents alike
C29_ModifiedOrAccessed ==
    [][/\ FlushStep
       /\ loop.cur.info # None /\ ~loop.cur.info.IsDir /\ ~loop.cur.info.IsSymlink
       /\ loop.cur.hash # HashErr
       /\ ~Has(PendingMask, inodeMovedMask \cup {"IN_CREATE", "IN_ATTRIB"})
       /\ Has(PendingMask, {"IN_ACCESS", "IN_MODIFY", "IN_CLOSE_WRITE"})
       => Classified' =
             IF \/ ~HashZero(PendingTarget.Hash) /\ loop.cur.hash # PendingTarget.Hash
                \/ HashZero(PendingTarget.Hash)
                   /\ Has(PendingMask, {"IN_MODIFY", "IN_CLOSE_WRITE"})
             THEN "fileEventModified" ELSE "fileEventAccessed"]_vars


\* the window of the pending event carries a content change: a write bit, and a
\* hash at the flush that differs from the stored one
ContentChanged ==
    /\ Has(PendingMask, {"IN_MODIFY", "IN_CLOSE_WRITE"})
    /\ loop.cur.hash # HashErr
    /\ loop.cur.hash # PendingTarget.Hash

\* C30 as stated: an attribute change (of a file or directory) is the kind only of
\* an existing path whose merged mask has IN_ATTRIB and whose window carries no
\* content change; with a content change the kind is Modified
C30_AttrWithoutChange ==
    [][FlushStep =>
          /\ Classified' \in {"fileEventAttr", "fileEventDirAttr"} =>
                loop.cur.info # None /\ "IN_ATTRIB" \in PendingMask /\ ~ContentChanged
          /\ loop.cur.info # None /\ ~loop.cur.info.IsDir /\ "IN_ATTRIB" \in PendingMask
             /\ ContentChanged /\ ~Has(PendingMask, inodeMovedMask \cup {"IN_CREATE"})
             => Classified' = "fileEventModified"]_vars

\* C30, amended: an attribute change (of a file or directory) is the kind only of
\* an existing path whose merged mask has IN_ATTRIB; the content is not looked at:
\* when the window also carries a content change and no move or create bit, the
\* kind is still the attribute change, and the stored hash stays as it was
C30_AttrBeforeChange ==
    [][FlushStep =>
          /\ Classified' \in {"fileEventAttr", "fileEventDirAttr"} =>
                loop.cur.info # None /\ "IN_ATTRIB" \in PendingMask
          /\ loop.cur.info # None /\ "IN_ATTRIB" \in PendingMask
             /\ ContentChanged /\ ~Has(PendingMask, inodeMovedMask \cup {"IN_CREATE"})
             => /\ Classified' = IF loop.cur.info.IsDir THEN "fileEventDirAttr"
                                 ELSE "fileEventAttr"
                /\ finfos'[loop.events[Pending].finfo].Hash = PendingTarget.Hash]_vars

\* an attribute change of the single-file target was classified from a window
\* that also held a write, and the hash of an earlier read is still stored
C30_Witness ==
    /\ Classified = "fileEventAttr"
    /\ ~finfos[loop.cur.fmod.finfo].IsDir
    /\ finfos[loop.cur.fmod.finfo].Hash = "1"
    /\ {"IN_ATTRIB", "IN_MODIFY", "IN_CLOSE_WRITE"} \subseteq loop.cur.fmod.mask


\* ----------------------------------------------------------- SpecBurst:
\* the container of SpecKind, watched in Evaluate mode for a grace period, with
\* nothing pending; one writer works on the single-file target /etc/hosts: the
\* drivers deliver up to MaxDelivered callbacks per window, and every flush finds
\* the file with a content other than the one last read
BurstStart ==
    LET prof == Profile(PolicyModeEvaluate)
        flags == ModeFlags(ContainerPid, PolicyModeEvaluate, FALSE, TRUE, FALSE)
        adds == addCoreFile(TRUE, CidOf(ContainerPid),
                            getCoreFile(ContainerPid, prof, ContainerFs))
        d == ApplyOps(Drivers([marks |-> <<>>,
                               roots |-> (ContainerPid :>
                                            [access |-> flags.access, perm |-> flags.perm,
                                             capBlock |-> TRUE, isNV |-> FALSE,
                                             started |-> TRUE, rule |-> None])],
                              [marks |-> <<>>]),
                      [i \in 1..Len(adds) |-> adds[i].op])
    IN  /\ groups = (ContainerPid :> [bNeuvector |-> FALSE, profile |-> prof,
                                      mode |-> PolicyModeEvaluate, applyRules |-> <<>>,
                                      learnRules |-> <<>>, startAt |-> 0])
        /\ fileEvents = <<>>
        /\ finfos = Objects(adds)
        /\ fanotifier = d.fan
        /\ inotifier = d.ino
        /\ walkerLimiter = 0
        /\ call = [c \in {1} |-> IdleCall]
        /\ loop = IdleLoop
        /\ sent = <<>>
        /\ sentRules = <<>>
        /\ ruleErr = FALSE
        /\ locked = ""
        /\ returned = NoCall
        /\ now = graceSeconds
        /\ delivered = <<>>

BurstNext ==
    \/ \E mask \in {{"IN_MODIFY"}, {"IN_CLOSE_WRITE"}} :
          FanNotify(AggHosts, mask, Proc(1)) /\ Logged(AggHosts, mask, Proc(1))
    \/ \E mask \in {{"IN_MODIFY"}, {"IN_CLOSE_WRITE"}, {"IN_ATTRIB"}} :
          InoNotify(AggHosts, mask) /\ Logged(AggHosts, mask, None)
    \/ HandleWatchedFiles_Snapshot
    \/ \E fullPath \in DOMAIN loop.events, hash \in {"1", "2"} :
          /\ hash # finfos[loop.events[fullPath].finfo].Hash
          /\ Flush_Event(fullPath, TRUE, Exists(FALSE, hash))
    \/ Flush_Report

SpecBurst == BurstStart /\ [][BurstNext]_vars

\* the flush is about to report a burst of the writer: the merged mask has
\* IN_MODIFY and IN_CLOSE_WRITE and the writer is the one process of the event
BurstReport ==
    /\ ReportStep
    /\ {"IN_MODIFY", "IN_CLOSE_WRITE"} \subseteq loop.cur.fmod.mask
    /\ loop.cur.fmod.pInfo = <<Proc(1)>>

\* the flush is about to classify such a burst
BurstFlush ==
    /\ FlushStep
    /\ {"IN_MODIFY", "IN_CLOSE_WRITE"} \subseteq PendingMask
    /\ loop.events[Pending].pInfo = <<Proc(1)>>

\* the one report of the writer with the given message
OneReport(msg) ==
    /\ Len(sent') = 1
    /\ sent'[1].Msg = msg
    /\ sent'[1].Action = PolicyActionViolate
    /\ sent'[1].Proc = Proc(1)

\* C26 as stated: a burst of one writer on a monitored file of an Evaluate-mode
\* group older than 60 s that changes the content gives, at the next flush,
\* exactly one report, with the message of a modification, action Violate and
\* the writer as process, whichever other bits the window merged
C26_BurstIsOneModification ==
    [][/\ BurstFlush => loop'.pc = "report"
       /\ BurstReport => OneReport("File was modified.")]_vars

\* C26, amended: such a burst on a single-file target gives exactly one report at
\* the next flush, with action Violate and the writer as process; its message is
\* that of a modification when the window merged no IN_ATTRIB, and that of an
\* attribute change when it did
C26_BurstIsOneReport ==
    [][/\ BurstFlush => loop'.pc = "report"
       /\ BurstReport =>
             OneReport(IF "IN_ATTRIB" \in loop.cur.fmod.mask
                       THEN "File attribute is changed." ELSE "File was modified.")]_vars

\* the one report of a burst that held an attribute change went out, naming the
\* writer; the hash of the file was not read
C26_Witness ==
    /\ loop.pc = "idle"
    /\ Len(sent) = 1
    /\ sent[1].Msg = "File attribute is changed."
    /\ sent[1].Proc = Proc(1)
    /\ finfos[AggHosts].Hash = "0"


\* ---------------------------------------------------------- SpecCreate:
\* the container of SpecBurst; a subdirectory is created in the watched directory
\* /bin, whose filter is recursive, and then a file in the subdirectory; the
\* drivers deliver what their marks cover
CreateNext ==
    LET sub == ContainerFilePath(ContainerPid, <<"/", "bin", "/", "sub">>)
        new == ContainerFilePath(ContainerPid, <<"/", "bin", "/", "sub", "/", "bin">>)
    IN  \/ InoNotify(sub, {"IN_CREATE", "IN_ISDIR"}) /\ UNCHANGED delivered
        \/ InoNotify(new, {"IN_CREATE"}) /\ UNCHANGED delivered
        \/ InoNotify(AggFile, {"IN_MODIFY"}) /\ UNCHANGED delivered
        \/ HandleWatchedFiles_Snapshot
        \/ \E fullPath \in DOMAIN loop.events, newFiles \in BOOLEAN :
              Flush_Event(fullPath, TRUE,
                          [Exists(fullPath = sub, IF fullPath = sub THEN HashErr ELSE "1")
                              EXCEPT !.newFiles = newFiles])
        \/ Flush_Report

SpecCreate == BurstStart /\ [][CreateNext]_vars

\* the directories whose creation below a recursive target was delivered and is
\* pending or snapshotted: from then on an event inside them can occur
CreatedDirs ==
    LET In(events) ==
           {p \in DOMAIN events :
               /\ {"IN_CREATE", "IN_ISDIR"} \subseteq events[p].mask
               /\ finfos[events[p].finfo].Filter.recursive}
    IN  In(fileEvents) \cup In(loop.events)

\* C31 as stated: a subdirectory created inside a watched directory with a
\* recursive filter is armed on both drivers before a later event inside it can
\* occur, that is, from the moment its creation was delivered
C31_ArmedBeforeLaterEvents ==
    \A p \in CreatedDirs : p \in DOMAIN fanotifier.marks \cap DOMAIN inotifier.marks


\* ----------------------------------------------------------- SpecMatch:
\* one container in Learn mode whose profile has the runtime-added file and a
\* customer-added filter for the directory /usr/bin, with an access rule for that
\* filter; processes open /etc/hosts
MatchNext ==
    LET usr == [F_bin EXCEPT !.Path = <<"/", "usr", "/", "bin">>]
    IN  \/ \E c \in DOMAIN call :
              \/ \E pidValid \in BOOLEAN :
                    StartWatch_Acquire(c, ContainerPid,
                        [Profile |-> [Profile(PolicyModeLearn) EXCEPT
                                         !.Filters = <<F_hosts, usr>>],
                         Rule |-> [Filters |-> (filterIndexKey(usr) :>
                                                   [CustomerAdd |-> TRUE, Apps |-> {}])]],
                        TRUE, FALSE, FALSE, pidValid)
              \/ StartWatch_Arm(c, ContainerFs)
              \/ StartWatch_Register(c)
              \/ StartWatch_Rules(c)
              \/ UpdateAccessRules_Fan(c)
        \/ \E n \in 1..(MaxProcs + 1) :
              FanNotify(AggHosts, {"IN_ACCESS"}, Proc(n)) /\ UNCHANGED delivered
        \/ InoNotify(AggHosts, {"IN_ATTRIB"}) /\ UNCHANGED delivered
        \/ \E mask \in {{"IN_IGNORED"}, {"IN_IGNORED", "IN_ATTRIB"}} :
              delivered = <<>> /\ InoNotify(AggHosts, mask) /\ Logged(AggHosts, mask, None)
        \/ /\ delivered = <<>>
           /\ FanNotify(AggHosts, {"IN_UNMOUNT", "IN_ACCESS"}, Proc(1))
           /\ Logged(AggHosts, {"IN_UNMOUNT", "IN_ACCESS"}, Proc(1))
        \/ LoopNext({Exists(FALSE, HashErr), Absent})

SpecMatch == Init /\ [][MatchNext]_vars

\* C32 as stated, for learning: a process is recorded under a filter only for a
\* flushed path that the filter covers: the filter's path itself when the regex is
\* empty, a path below the filter's directory otherwise
C32_LearnsWithinFilter ==
    [][\A p \in DOMAIN groups :
          \A f \in Range(groups[p].profile.Filters \o groups[p].profile.FiltersCRD) :
             Gained(p, filterIndexKey(f)) =>
                /\ Processes(p)
                /\ IF f.Regex = <<>> THEN loop'.cur.path = f.Path
                   ELSE \/ HasPrefix(loop'.cur.path, f.Path \o <<"/">>)
                        \/ HasPrefix(loop'.cur.path, Dir(f.Path) \o <<"/">>)]_vars


\* the callback the drivers made in this step, as logged
Callback == delivered'[Len(delivered')]

\* C33: a driver callback whose mask has IN_IGNORED or IN_UNMOUNT, whatever else
\* it has, removes the path from the fanotify and from the inotify driver and
\* leaves fileEvents as it was, an entry already pending for the path included
C33_ReleasedWatch ==
    [][/\ Len(delivered') = Len(delivered) + 1
       /\ Has(Callback.mask, {"IN_IGNORED", "IN_UNMOUNT"})
       => /\ Callback.path \notin DOMAIN fanotifier'.marks \cup DOMAIN inotifier'.marks
          /\ fileEvents' = fileEvents]_vars

\* a callback with IN_IGNORED and another bit came while an event of a process
\* was pending for the path: the marks are gone and the entry is as it was
C33_Witness ==
    /\ delivered # <<>>
    /\ delivered[Len(delivered)].mask = {"IN_IGNORED", "IN_ATTRIB"}
    /\ AggHosts \notin DOMAIN fanotifier.marks \cup DOMAIN inotifier.marks
    /\ AggHosts \in DOMAIN fileEvents
    /\ fileEvents[AggHosts].mask = {"IN_ACCESS"}
    /\ fileEvents[AggHosts].pInfo = <<Proc(1)>>


\* C34: a report reaches the report callback only in a step of the flush, and the
\* process alert, the callback NewFileWatcher hands to NewFaNotify for the driver
\* to call from its event handling, neither sends a report nor takes the
\* FileWatch mutex
C34_ReportsFromFlushOnly ==
    [][/\ sent' # <<>> => loop' # loop
       /\ \A c \in DOMAIN call :
             call[c].pc = "alert" \/ call'[c].pc = "alert"
                => sent' = <<>> /\ locked' # "locked"]_vars


RuleNext ==
    LET other == [Filters |->
                     (filterIndexKey(F_hosts) :> [CustomerAdd |-> TRUE, Apps |-> {Proc(1).Path}])
                     @@ (filterIndexKey(F_bin) :> [CustomerAdd |-> FALSE, Apps |-> {Proc(2).Path}])]
    IN  \/ \E c \in DOMAIN call :
              CallerNext(c, {ContainerPid}, SpecModes, {None, AccessRule({}), other},
                         {ContainerFs})
        \/ Tick(graceSeconds, MaxTicks * graceSeconds)

SpecRule == Init /\ [][RuleNext]_vars

\* C36: when UpdateAccessRules finds the group of rootPid, apply_rules of the group
\* becomes the rule's customer-added entries and nothing else, each under the
\* rule's own key with the applications of that entry, and the rest of the group
\* stays; when there is no group for rootPid the call changes no group, does not
\* go on to the fanotify driver and leaves the driver as it is
C36_RulesReplaced ==
    [][\A c \in DOMAIN call :
          /\ call[c].pc # "fanRule" /\ call'[c].pc = "fanRule" =>
                LET p == call'[c].rootPid
                    r == call'[c].rule.Filters
                IN  /\ p \in DOMAIN groups /\ DOMAIN groups' = DOMAIN groups
                    /\ DOMAIN groups'[p].applyRules = {k \in DOMAIN r : r[k].CustomerAdd}
                    /\ \A k \in DOMAIN groups'[p].applyRules :
                          groups'[p].applyRules[k] = r[k].Apps
                    /\ groups' = [groups EXCEPT ![p].applyRules = groups'[p].applyRules]
          /\ /\ call[c].pc = "idle" /\ call'[c].pc = "idle"
             /\ returned'.op = "UpdateAccessRules"
             /\ returned'.rootPid \notin DOMAIN groups
             => groups' = groups /\ fanotifier' = fanotifier]_vars

\* the second rule has replaced the first: the key of the directory, which the
\* group had and which the rule has without the customer-added flag, is gone, and
\* the key of /etc/hosts is the only one
C36_Witness ==
    /\ call[1].pc = "fanRule" /\ call[1].op = "UpdateAccessRules"
    /\ filterIndexKey(F_bin) \in DOMAIN call[1].rule.Filters
    /\ ContainerPid \in DOMAIN groups
    /\ groups[ContainerPid].applyRules = (filterIndexKey(F_hosts) :> {Proc(1).Path})
    /\ ContainerPid \in DOMAIN fanotifier.roots
    /\ fanotifier.roots[ContainerPid].rule = AccessRule({})


\* C37: start_at of a group is the time of the step that registered it and no
\* later step changes it, whether of StartWatch, UpdateAccessRules or
\* ContainerCleanup; a group is registered by StartWatch alone and goes away only
\* by a ContainerCleanup with bLeave, so a grace period begins again only when a
\* StartWatch follows such a cleanup
C37_GraceStartsOnce ==
    [][/\ \A p \in DOMAIN groups \cap DOMAIN groups' :
             groups'[p].startAt = groups[p].startAt
       /\ \A p \in DOMAIN groups' \ DOMAIN groups :
             /\ groups'[p].startAt = now
             /\ \E c \in DOMAIN call :
                   /\ call[c].pc = "register" /\ call[c].op = "StartWatch"
                   /\ call[c].rootPid = p
       /\ \A p \in DOMAIN groups \ DOMAIN groups' :
             returned' = [op |-> "ContainerCleanup", rootPid |-> p, leave |-> TRUE]]_vars

\* a group registered at time 0 has just been through a StartWatch that found it,
\* after the grace period had passed: its grace period still began at 0
C37_Witness ==
    /\ now = graceSeconds
    /\ ContainerPid \in DOMAIN groups
    /\ groups[ContainerPid].startAt = 0
    /\ groups[ContainerPid].mode = PolicyModeEvaluate
    /\ groups[ContainerPid].applyRules = <<>>
    /\ returned = [op |-> "StartWatch", rootPid |-> ContainerPid, leave |-> FALSE]


\* ------------------------------------------------------------ SpecLive:
\* one container in Learn mode, watched and cleaned by one goroutine while a
\* process keeps opening /bin/ls. Each ticker keeps its tick until the loop's
\* select takes it, and select chooses among the ready cases at random, so a
\* handler that is ready again and again is run (strong fairness of the snapshot
\* and of the collection); a step inside a handler is taken once the callback
\* before it has returned (weak fairness of the other steps of the loop).
LiveNext ==
    \/ \E c \in DOMAIN call :
          CallerNext(c, {ContainerPid}, {PolicyModeLearn}, {AccessRule({})}, {ContainerFs})
    \/ FanNotify(AggFile, {"IN_ACCESS"}, Proc(1)) /\ UNCHANGED delivered
    \/ LoopNext({Exists(FALSE, HashErr)})

SpecLive ==
    /\ Init /\ [][LiveNext]_vars
    /\ SF_vars(HandleWatchedFiles_Snapshot)
    /\ SF_vars(reportLearningRules_Collect)
    /\ WF_vars(\E fullPath \in DOMAIN loop.events, pidValid \in BOOLEAN :
                  Flush_Event(fullPath, pidValid, Exists(FALSE, HashErr)))
    /\ WF_vars(Flush_Report)
    /\ WF_vars(\E failed \in BOOLEAN : reportLearningRules_Send(failed))

\* C38: with a loop that serves both tickers and callbacks that return, an event
\* pending in fileEvents is eventually out of the map and the rules a group has
\* learned are eventually out of the group (collected and handed to the rule
\* callback, or dropped with the cleanup); and while the loop is in a report or
\* rule callback its only step is the return of that callback: it takes no
\* snapshot and collects no batch
C38_EventuallyDrained ==
    /\ (AggFile \in DOMAIN fileEvents) ~> (AggFile \notin DOMAIN fileEvents)
    /\ (ContainerPid \in DOMAIN groups /\ groups[ContainerPid].learnRules # <<>>)
          ~> (ContainerPid \notin DOMAIN groups \/ groups[ContainerPid].learnRules = <<>>)
    /\ (loop.pc = "sendRule") ~> (DOMAIN sentRules # {})
    /\ [][loop.pc \in {"report", "sendRule"} =>
             /\ loop'.events = loop.events
             /\ loop'.batch \in {loop.batch, <<>>}
             /\ loop'.pc \in {loop.pc, AfterEvent(loop.events)}]_vars

\* the learn tick hands a batch to the rule callback: the group that learned it
\* has no learned rule left and no event is pending
C38_Witness ==
    /\ DOMAIN sentRules # {}
    /\ ContainerPid \in DOMAIN groups
    /\ groups[ContainerPid].learnRules = <<>>
    /\ fileEvents = <<>>


\* ------------------------------------------------------------ SpecRace:
\* two goroutines and one container whose root pid is valid and whose walk
\* succeeds: the first calls StartWatch, the second ContainerCleanup with bLeave
RaceNext ==
    \/ \E mode \in SpecModes :
          StartWatch_Acquire(1, ContainerPid, [Profile |-> Profile(mode), Rule |-> AccessRule({})],
                             TRUE, FALSE, FALSE, TRUE)
    \/ StartWatch_Arm(1, ContainerFs)
    \/ StartWatch_Register(1)
    \/ StartWatch_Rules(1)
    \/ UpdateAccessRules_Fan(1)
    \/ ContainerCleanup_Drivers(2, ContainerPid, TRUE)
    \/ ContainerCleanup_Lock(2)

SpecRace == InitWith({1, 2}) /\ [][RaceNext]_vars

\* the paths of the container that a driver has a mark for
Armed(rootPid) ==
    {path \in DOMAIN fanotifier.marks \cup DOMAIN inotifier.marks : PidOf(path) = rootPid}

\* C39: StartWatch and ContainerCleanup with bLeave for one root pid, run by two
\* goroutines, leave what one of their two orders leaves: when both have returned,
\* the group is registered and its marks are armed, or there is no group and no
\* mark
C39_GroupAndMarksTogether ==
    (\A c \in DOMAIN call : call[c].pc = "idle")
       => (ContainerPid \in DOMAIN groups <=> Armed(ContainerPid) # {})


\* ------------------------------------------------------------ SpecDrop:
\* two containers in Learn mode. The root process of the second has exited: its
\* marks still deliver events, and its root pid is not a valid process at any
\* flush. The first is alive, is cleaned with and without bLeave, and its events
\* come while an event of the second is pending.
DropNext ==
    LET exited == ContainerFilePath(ContainerPid + 1, <<"/", "bin", "/", "ls">>)
    IN  \/ \E c \in DOMAIN call :
              \/ \E rootPid \in {ContainerPid, ContainerPid + 1} :
                    StartWatch_Acquire(c, rootPid,
                                       [Profile |-> Profile(PolicyModeLearn),
                                        Rule |-> AccessRule({})],
                                       TRUE, FALSE, FALSE, TRUE)
              \/ StartWatch_Arm(c, ContainerFs)
              \/ StartWatch_Register(c)
              \/ StartWatch_Rules(c)
              \/ UpdateAccessRules_Fan(c)
              \/ \E bLeave \in BOOLEAN : ContainerCleanup_Drivers(c, ContainerPid, bLeave)
              \/ ContainerCleanup_Lock(c)
        \/ /\ UNCHANGED delivered
           /\ \/ FanNotify(exited, {"IN_ACCESS"}, Proc(1))
              \/ exited \in DOMAIN fileEvents /\ FanNotify(AggFile, {"IN_ACCESS"}, Proc(1))
        \/ HandleWatchedFiles_Snapshot
        \/ \E fullPath \in DOMAIN loop.events :
              Flush_Event(fullPath, PidOf(fullPath) = ContainerPid, Exists(FALSE, HashErr))
        \/ Flush_Report

SpecDrop == Init /\ [][DropNext]_vars

\* the events that this step of the flush takes from the snapshot
Flushed == DOMAIN loop.events \ DOMAIN loop'.events

\* C40: the flush takes an event whose root pid is the exited container's, or has
\* no registered group, out of the snapshot without learning from it and without
\* a report for it, and puts it nowhere for a later flush; for the exited
\* container it also leaves the file table and the drivers as they are
C40_DroppedEvents ==
    [][loop.pc = "flush" =>
          \A fullPath \in Flushed :
             PidOf(fullPath) = ContainerPid + 1 \/ PidOf(fullPath) \notin DOMAIN groups
                => /\ groups' = groups
                   /\ sent' = <<>> /\ loop'.pc # "report" /\ loop'.cur = loop.cur
                   /\ fileEvents' = fileEvents
                   /\ fullPath \notin DOMAIN loop'.events
                   /\ PidOf(fullPath) = ContainerPid + 1
                         => /\ finfos' = finfos
                            /\ fanotifier' = fanotifier /\ inotifier' = inotifier]_vars

\* a flush has run to its end on a snapshot that held an event of each container:
\* the live container has learned the process, the exited one, registered in
\* Learn mode under the same rule, has learned nothing, and nothing is pending
C40_Witness ==
    /\ loop.pc = "idle" /\ loop.events = <<>> /\ fileEvents = <<>>
    /\ {ContainerPid, ContainerPid + 1} \subseteq DOMAIN groups
    /\ groups[ContainerPid].learnRules # <<>>
    /\ groups[ContainerPid + 1].learnRules = <<>>
    /\ DOMAIN groups[ContainerPid + 1].applyRules = {filterIndexKey(F_bin)}
    /\ sent = <<>>

====
